---- MODULE Spec2Model ----
(***************************************************************************)
(* SkyCast: the weather-query service (lib/weatherService.ts), its HTTP    *)
(* handlers (pages/api/weather-queries) and the collaborators they call,   *)
(* as a state machine over the two document collections.                   *)
(*                                                                         *)
(* Time is counted in ticks, TicksPerDay ticks to a calendar day; a        *)
(* calendar-date string 'yyyy-MM-dd' is modelled by its day number and     *)
(* parses to the instant of its local midnight.                            *)
(***************************************************************************)
EXTENDS Integers, Sequences, FiniteSets, TLC

VARIABLES
    now,        \* the wall clock (new Date()), in ticks
    yearLen,    \* days between now and the same calendar day one year back
    arg,        \* the DateRange handed to validateDateRange
    called,     \* whether validateDateRange has been applied to arg
    dv,         \* the DateRangeValidation it returned
    queries,    \* the weather_queries collection: a set of documents
    insights,   \* the ai_insights collection: a set of documents
    nextId,     \* the next ObjectId the store assigns to a query
    nextInsightId, \* the next ObjectId the store assigns to an insight
    apiKey,     \* AIService.apiKey is configured (OPENROUTER_API_KEY)
    last,       \* the last call made and what it returned
    pc,         \* per request in flight: the store operation it is about to issue
    loc,        \* per request in flight: what it has read and computed so far
    listed,     \* the last listing or export request and the page it was answered
    input,      \* the argument a function under study is applied to, <<>> if none
    output      \* what the function returned, <<>> before the call

dateVars == <<arg, called, dv>>
storeVars == <<queries, insights, nextId, nextInsightId>>
procVars == <<pc, loc>>
pureVars == <<input, output>>
vars == <<now, yearLen, arg, called, dv, queries, insights, nextId,
          nextInsightId, apiKey, last, pc, loc, listed, input, output>>

-----------------------------------------------------------------------------
(* Bounds of the model *)

TicksPerDay == 2
MaxNow == 3
DaySlack == 2
MaxQueries == 2
MaxInsights == 2
NumProcs == 2
MaxListed == 3

(* Program constants *)

ForecastHorizonDays == 5
FallbackSpanDays == 5
CommonYearDays == 365
LeapYearDays == 366

-----------------------------------------------------------------------------
(* Dates: date-fns parseISO / isValid / isAfter / isBefore / format *)

MkDate(d) == [parses |-> TRUE, day |-> d]
BadDate == [parses |-> FALSE, day |-> 0]

InvalidDate == [valid |-> FALSE, time |-> 0]

parseISO(s) ==
    IF s.parses THEN [valid |-> TRUE, time |-> s.day * TicksPerDay]
    ELSE InvalidDate

isValid(d) == d.valid

isNotBefore(a, b) == a.valid /\ b.valid /\ a.time >= b.time

isAfter(a, b) == a.valid /\ b.valid /\ a.time > b.time

isBefore(a, b) == a.valid /\ b.valid /\ a.time < b.time

DateAt(t) == [valid |-> TRUE, time |-> t]

format(t) == MkDate(t \div TicksPerDay)

-----------------------------------------------------------------------------
(* WeatherService.validateDateRange *)

ErrStartInvalid == "Start date is invalid"
ErrEndInvalid == "End date is invalid"
ErrOrder == "Start date cannot be after end date"
ErrPast == "Historical weather data is limited to the past year"
ErrStartHorizon == "Weather forecasts are only available for the next 5 days with OpenWeatherMap free tier"
ErrEndHorizon == "For long-term planning beyond 5 days, consider using current weather patterns and seasonal trends"

PushIf(errors, cond, msg) == IF cond THEN Append(errors, msg) ELSE errors

oneYearAgo(t, ylen) == DateAt(t - ylen * TicksPerDay)

fiveDaysFromNow(t) == DateAt(t + ForecastHorizonDays * TicksPerDay)

ParseErrors(dateRange) ==
    PushIf(PushIf(<<>>, ~isValid(parseISO(dateRange.startDate)), ErrStartInvalid),
           ~isValid(parseISO(dateRange.endDate)), ErrEndInvalid)

RuleErrorsUnordered(dateRange, t, ylen) ==
    LET start == parseISO(dateRange.startDate)
        end == parseISO(dateRange.endDate)
        e2 == PushIf(<<>>, isBefore(start, oneYearAgo(t, ylen)), ErrPast)
        e3 == PushIf(e2, isAfter(start, fiveDaysFromNow(t)), ErrStartHorizon)
    IN  PushIf(e3, isAfter(end, fiveDaysFromNow(t)), ErrEndHorizon)

RuleErrorsFirstOnly(dateRange, t, ylen) ==
    LET start == parseISO(dateRange.startDate)
        end == parseISO(dateRange.endDate)
    IN  IF isAfter(start, end) THEN <<ErrOrder>>
        ELSE IF isBefore(start, oneYearAgo(t, ylen)) THEN <<ErrPast>>
        ELSE IF isAfter(start, fiveDaysFromNow(t)) THEN <<ErrStartHorizon>>
        ELSE IF isAfter(end, fiveDaysFromNow(t)) THEN <<ErrEndHorizon>>
        ELSE <<>>

RuleErrors(dateRange, t, ylen) ==
    LET start == parseISO(dateRange.startDate)
        end == parseISO(dateRange.endDate)
        e1 == PushIf(<<>>, isAfter(start, end), ErrOrder)
        e2 == PushIf(e1, isBefore(start, oneYearAgo(t, ylen)), ErrPast)
        e3 == PushIf(e2, isAfter(start, fiveDaysFromNow(t)), ErrStartHorizon)
    IN  PushIf(e3, isAfter(end, fiveDaysFromNow(t)), ErrEndHorizon)

DefaultRangeFromStart(t) ==
    [startDate |-> format(t), endDate |-> format(t) ]

DefaultRange(t) ==
    [startDate |-> format(t), endDate |-> format(t + FallbackSpanDays * TicksPerDay)]

validateDateRangeKeepInput(dateRange, t, ylen) ==
    LET errors == IF Len(ParseErrors(dateRange)) = 0
                  THEN RuleErrors(dateRange, t, ylen)
                  ELSE ParseErrors(dateRange)
    IN  [isValid |-> Len(errors) = 0, errors |-> errors, adjustedRange |-> dateRange]

validateDateRange(dateRange, t, ylen) ==
    LET errors == IF Len(ParseErrors(dateRange)) = 0
                  THEN RuleErrors(dateRange, t, ylen)
                  ELSE ParseErrors(dateRange)
    IN  [isValid |-> Len(errors) = 0,
         errors |-> errors,
         adjustedRange |-> IF Len(errors) = 0 THEN dateRange ELSE DefaultRange(t)]

-----------------------------------------------------------------------------
(* Values: optional fields, snapshots, documents *)

Some(v) == [has |-> TRUE, val |-> v]
NoString == [has |-> FALSE, val |-> ""]
NoTags == [has |-> FALSE, val |-> <<>>]
NoRange == [has |-> FALSE, val |-> [startDate |-> BadDate, endDate |-> BadDate]]

MalformedId == 0
ConfidenceThreshold == 80
FullConfidence == 100

ZeroCoords == [lat |-> 0, lon |-> 0]

NoWeather == [name |-> "", obs |-> 0]
NoForecast == [present |-> FALSE, city |-> "", obs |-> 0]

NoDoc ==
    [_id |-> MalformedId, location |-> "", locationNormalized |-> "",
     coordinates |-> ZeroCoords, dateRange |-> NoRange.val,
     weatherData |-> NoWeather, forecastData |-> NoForecast,
     createdAt |-> 0, updatedAt |-> 0, tags |-> <<>>, userNotes |-> ""]

NoInsight ==
    [_id |-> MalformedId, queryId |-> MalformedId, location |-> "",
     basis |-> NoWeather, degraded |-> FALSE, generatedAt |-> 0]

-----------------------------------------------------------------------------
(* The weather provider (utils/weatherApi.ts): the places it knows, by the
   name it answers with *)

Canonical ==
    [l \in {"london", "London", "Paris"} |->
        IF l = "Paris" THEN "Paris" ELSE "London"]

getCurrentWeather(location, up, t) ==
    IF up /\ location \in DOMAIN Canonical
    THEN [ok |-> TRUE, data |-> [name |-> Canonical[location], obs |-> t]]
    ELSE [ok |-> FALSE, data |-> NoWeather]

getForecast(location, up, t) ==
    IF up /\ location \in DOMAIN Canonical
    THEN [ok |-> TRUE,
          data |-> [present |-> TRUE, city |-> Canonical[location], obs |-> t]]
    ELSE [ok |-> FALSE, data |-> NoForecast]

(* location.toLowerCase().trim().replace(/\s+/g, ' ') on the names the
   provider answers with *)
normalizeLocation(location) ==
    CASE location = "London" -> "london"
      [] location = "Paris" -> "paris"
      [] location = "london" -> "london"
      [] OTHER -> location

(* the names of the built-in gazetteer *)
COMMON_LOCATIONS ==
    {"New York", "London", "Tokyo", "Paris", "Sydney", "Los Angeles", "Chicago",
     "Toronto", "Berlin", "Mumbai", "Singapore", "Dubai", "São Paulo", "Mexico City",
     "Moscow"}

(* this.fuse is built over an empty list: its search finds nothing *)
fuseSearch(location) == <<>>

validateLocation(location, up, t) ==
    LET weatherData == getCurrentWeather(location, up, t)
    IN  IF weatherData.ok
        THEN <<[name |-> weatherData.data.name, coordinates |-> ZeroCoords,
                confidence |-> FullConfidence]>>
        ELSE fuseSearch(location)

-----------------------------------------------------------------------------
(* WeatherService: the CRUD operations, each as the store it leaves and the
   value it returns.  env says which provider calls succeed: w1 the lookup
   inside validateLocation, w2 the current-weather fetch, fc the forecast. *)

AllUp == [w1 |-> TRUE, w2 |-> TRUE, fc |-> TRUE]

(* a call fails at its first failing fetch: the fetches it never makes, or
   whose result it discards, have no outcome of their own *)
Envs ==
    {AllUp, [AllUp EXCEPT !.w1 = FALSE], [AllUp EXCEPT !.w2 = FALSE],
     [AllUp EXCEPT !.fc = FALSE]}

(* the provider outcomes a call with these arguments consults *)
EnvsOf(fetches) == IF fetches THEN Envs ELSE {AllUp}

Outcome(status, qs, res) == [status |-> status, queries |-> qs, res |-> res]

finalLocationOf(matches, location) ==
    IF matches[1].confidence > ConfidenceThreshold THEN matches[1].name ELSE location

NewQueryDocCanonicalName(id, request, bestMatch, finalLocation, dateValidation, weatherData, forecastData, t) ==
    [_id |-> id,
     location |-> finalLocation,
     locationNormalized |-> normalizeLocation(finalLocation),
     coordinates |-> bestMatch.coordinates,
     dateRange |-> dateValidation.adjustedRange,
     weatherData |-> weatherData.data,
     forecastData |-> IF forecastData.ok THEN forecastData.data ELSE NoForecast,
     createdAt |-> t,
     updatedAt |-> t,
     tags |-> IF request.tags.has THEN request.tags.val ELSE <<>>,
     userNotes |-> IF request.userNotes.has THEN request.userNotes.val ELSE ""]

NewQueryDoc(id, request, bestMatch, finalLocation, dateValidation, weatherData, forecastData, t) ==
    [_id |-> id,
     location |-> request.location,
     locationNormalized |-> normalizeLocation(finalLocation),
     coordinates |-> bestMatch.coordinates,
     dateRange |-> dateValidation.adjustedRange,
     weatherData |-> weatherData.data,
     forecastData |-> IF forecastData.ok THEN forecastData.data ELSE NoForecast,
     createdAt |-> t,
     updatedAt |-> t,
     tags |-> IF request.tags.has THEN request.tags.val ELSE <<>>,
     userNotes |-> IF request.userNotes.has THEN request.userNotes.val ELSE ""]

createWeatherQueryForecastRequired(qs, id, request, env, t, ylen) ==
    LET dateValidation == validateDateRange(request.dateRange, t, ylen)
        locationMatches == validateLocation(request.location, env.w1, t)
        finalLocation == finalLocationOf(locationMatches, request.location)
        weatherData == getCurrentWeather(finalLocation, env.w2, t)
        forecastData == getForecast(finalLocation, env.fc, t)
        weatherQuery == NewQueryDoc(id, request, locationMatches[1], finalLocation,
                                    dateValidation, weatherData, forecastData, t)
    IN  IF ~dateValidation.isValid THEN Outcome("invalid_date", qs, NoDoc)
        ELSE IF Len(locationMatches) = 0 THEN Outcome("location_not_found", qs, NoDoc)
        ELSE IF ~weatherData.ok \/ ~forecastData.ok THEN Outcome("fetch_failed", qs, NoDoc)
        ELSE Outcome("ok", qs \cup {weatherQuery}, weatherQuery)

createWeatherQuery(qs, id, request, env, t, ylen) ==
    LET dateValidation == validateDateRange(request.dateRange, t, ylen)
        locationMatches == validateLocation(request.location, env.w1, t)
        finalLocation == finalLocationOf(locationMatches, request.location)
        weatherData == getCurrentWeather(finalLocation, env.w2, t)
        forecastData == getForecast(finalLocation, env.fc, t)
        weatherQuery == NewQueryDoc(id, request, locationMatches[1], finalLocation,
                                    dateValidation, weatherData, forecastData, t)
    IN  IF ~dateValidation.isValid THEN Outcome("invalid_date", qs, NoDoc)
        ELSE IF Len(locationMatches) = 0 THEN Outcome("location_not_found", qs, NoDoc)
        ELSE IF ~weatherData.ok THEN Outcome("fetch_failed", qs, NoDoc)
        ELSE Outcome("ok", qs \cup {weatherQuery}, weatherQuery)

getWeatherQueryAnyRecord(qs, id) ==
    IF \E q \in qs : q._id = id THEN CHOOSE q \in qs : q._id = id
    ELSE IF qs # {} THEN CHOOSE q \in qs : TRUE
    ELSE NoDoc

(* findOne({ _id: new ObjectId(id) }); an ill-formed id makes ObjectId throw,
   which the catch block turns into null *)
getWeatherQuery(qs, id) ==
    IF id # MalformedId /\ \E q \in qs : q._id = id
    THEN CHOOSE q \in qs : q._id = id
    ELSE NoDoc

ApplyUpdateDefaultTags(q, updates, locationMatches, weatherData, forecastData, dateValidation, t) ==
    LET setLocation == updates.location.has /\ updates.location.val # ""
        finalLocation == finalLocationOf(locationMatches, updates.location.val)
    IN  [_id |-> q._id,
         location |-> IF setLocation THEN updates.location.val ELSE q.location,
         locationNormalized |->
             IF setLocation THEN normalizeLocation(finalLocation) ELSE q.locationNormalized,
         coordinates |->
             IF setLocation THEN locationMatches[1].coordinates ELSE q.coordinates,
         dateRange |->
             IF updates.dateRange.has THEN dateValidation.adjustedRange ELSE q.dateRange,
         weatherData |-> IF setLocation THEN weatherData.data ELSE q.weatherData,
         forecastData |->
             IF setLocation /\ forecastData.ok THEN forecastData.data ELSE q.forecastData,
         createdAt |-> q.createdAt,
         updatedAt |-> t,
         tags |-> updates.tags.val,
         userNotes |-> IF updates.userNotes.has THEN updates.userNotes.val ELSE q.userNotes]

(* the $set document of updateWeatherQuery applied to one stored document *)
ApplyUpdateWholeDocument(q, updates, locationMatches, weatherData, forecastData, dateValidation, t) ==
    LET setLocation == updates.location.has /\ updates.location.val # ""
    IN  [_id |-> q._id,
         location |-> IF setLocation THEN updates.location.val ELSE q.location,
         locationNormalized |-> q.locationNormalized,
         coordinates |-> q.coordinates,
         dateRange |-> q.dateRange,
         weatherData |-> IF setLocation THEN weatherData.data ELSE q.weatherData,
         forecastData |-> q.forecastData,
         createdAt |-> q.createdAt,
         updatedAt |-> t,
         tags |-> IF updates.tags.has THEN updates.tags.val ELSE <<>>,
         userNotes |-> IF updates.userNotes.has THEN updates.userNotes.val ELSE ""]

ApplyUpdate(q, updates, locationMatches, weatherData, forecastData, dateValidation, t) ==
    LET setLocation == updates.location.has /\ updates.location.val # ""
        finalLocation == finalLocationOf(locationMatches, updates.location.val)
    IN  [_id |-> q._id,
         location |-> IF setLocation THEN updates.location.val ELSE q.location,
         locationNormalized |->
             IF setLocation THEN normalizeLocation(finalLocation) ELSE q.locationNormalized,
         coordinates |->
             IF setLocation THEN locationMatches[1].coordinates ELSE q.coordinates,
         dateRange |->
             IF updates.dateRange.has THEN dateValidation.adjustedRange ELSE q.dateRange,
         weatherData |-> IF setLocation THEN weatherData.data ELSE q.weatherData,
         forecastData |->
             IF setLocation /\ forecastData.ok THEN forecastData.data ELSE q.forecastData,
         createdAt |-> q.createdAt,
         updatedAt |-> t,
         tags |-> IF updates.tags.has THEN updates.tags.val ELSE q.tags,
         userNotes |-> IF updates.userNotes.has THEN updates.userNotes.val ELSE q.userNotes]

updateWeatherQueryLocationFirst(qs, id, updates, env, t, ylen) ==
    LET setLocation == updates.location.has /\ updates.location.val # ""
        locationMatches == validateLocation(updates.location.val, env.w1, t)
        finalLocation == finalLocationOf(locationMatches, updates.location.val)
        weatherData == getCurrentWeather(finalLocation, env.w2, t)
        forecastData == getForecast(finalLocation, env.fc, t)
        dateValidation == validateDateRange(updates.dateRange.val, t, ylen)
        old == getWeatherQuery(qs, id)
        new == ApplyUpdate(old, updates, locationMatches, weatherData, forecastData,
                           dateValidation, t)
        part == ApplyUpdate(old, [updates EXCEPT !.dateRange = NoRange], locationMatches,
                            weatherData, forecastData, dateValidation, t)
    IN  IF setLocation /\ Len(locationMatches) = 0
        THEN Outcome("location_not_found", qs, NoDoc)
        ELSE IF setLocation /\ ~weatherData.ok THEN Outcome("fetch_failed", qs, NoDoc)
        ELSE IF updates.dateRange.has /\ ~dateValidation.isValid
        THEN Outcome("invalid_date",
                     IF setLocation /\ old # NoDoc THEN (qs \ {old}) \cup {part} ELSE qs,
                     NoDoc)
        ELSE IF id = MalformedId THEN Outcome("error", qs, NoDoc)
        ELSE IF old = NoDoc THEN Outcome("null", qs, NoDoc)
        ELSE Outcome("ok", (qs \ {old}) \cup {new}, new)

updateWeatherQuery(qs, id, updates, env, t, ylen) ==
    LET setLocation == updates.location.has /\ updates.location.val # ""
        locationMatches == validateLocation(updates.location.val, env.w1, t)
        finalLocation == finalLocationOf(locationMatches, updates.location.val)
        weatherData == getCurrentWeather(finalLocation, env.w2, t)
        forecastData == getForecast(finalLocation, env.fc, t)
        dateValidation == validateDateRange(updates.dateRange.val, t, ylen)
        old == getWeatherQuery(qs, id)
        new == ApplyUpdate(old, updates, locationMatches, weatherData, forecastData,
                           dateValidation, t)
    IN  IF setLocation /\ Len(locationMatches) = 0
        THEN Outcome("location_not_found", qs, NoDoc)
        ELSE IF setLocation /\ ~weatherData.ok THEN Outcome("fetch_failed", qs, NoDoc)
        ELSE IF updates.dateRange.has /\ ~dateValidation.isValid
        THEN Outcome("invalid_date", qs, NoDoc)
        ELSE IF id = MalformedId THEN Outcome("error", qs, NoDoc)
        ELSE IF old = NoDoc THEN Outcome("null", qs, NoDoc)
        ELSE Outcome("ok", (qs \ {old}) \cup {new}, new)

deleteWeatherQueryAlwaysTrue(qs, ins, id) ==
    [deleted |-> id # MalformedId,
     queries |-> {q \in qs : q._id # id},
     insights |-> {i \in ins : i.queryId # id}]

deleteWeatherQuery(qs, ins, id) ==
    LET kept == {i \in ins : i.queryId # id}
    IN  IF id = MalformedId
        THEN [deleted |-> FALSE, queries |-> qs, insights |-> kept]
        ELSE [deleted |-> \E q \in qs : q._id = id,
              queries |-> {q \in qs : q._id # id},
              insights |-> kept]

(* deleteWeatherQuery when the store fails after `completed` of its two
   operations (deleteMany on the insights, then deleteOne on the query) have
   been carried out: the catch block answers false. *)
deleteWeatherQueryInterruptedQueryFirst(qs, ins, id, completed) ==
    [deleted |-> FALSE,
     queries |-> IF completed = 0 THEN qs ELSE {q \in qs : q._id # id},
     insights |-> ins]

deleteWeatherQueryInterrupted(qs, ins, id, completed) ==
    [deleted |-> FALSE,
     queries |-> qs,
     insights |-> IF completed = 0 THEN ins ELSE {i \in ins : i.queryId # id}]

-----------------------------------------------------------------------------
(* AI insights.  AIService.generateWeatherInsight answers with the parsed
   gateway reply, or with its fixed fallback text when the gateway call
   fails; either way the text is derived from the query's stored snapshot. *)

InsightOutcome(status, ins, res) == [status |-> status, insights |-> ins, res |-> res]

NewInsight(iid, queryId, weatherQuery, gateway, t) ==
    [_id |-> iid, queryId |-> queryId, location |-> weatherQuery.location,
     basis |-> weatherQuery.weatherData, degraded |-> ~gateway, generatedAt |-> t]

generateAIInsight(qs, ins, iid, queryId, key, gateway, t) ==
    LET weatherQuery == getWeatherQuery(qs, queryId)
        aiInsight == NewInsight(iid, queryId, weatherQuery, gateway, t)
    IN  IF weatherQuery = NoDoc THEN InsightOutcome("query_not_found", ins, NoInsight)
        ELSE IF ~key THEN InsightOutcome("unavailable", ins, NoInsight)
        ELSE InsightOutcome("ok", ins \cup {aiInsight}, aiInsight)

(* collection.findOne({ queryId }): any one of the matching documents *)
getAIInsight(ins, queryId) ==
    IF \E i \in ins : i.queryId = queryId
    THEN {i \in ins : i.queryId = queryId}
    ELSE {NoInsight}

-----------------------------------------------------------------------------
(* Listing.  A filter that is not given is absent from the Mongo query; the
   hasAIInsight filter is never put into it. *)

NoDate == [has |-> FALSE, val |-> BadDate]
NoFlag == [has |-> FALSE, val |-> FALSE]

NoFilters ==
    [location |-> NoString, dateFrom |-> NoDate, dateTo |-> NoDate, tags |-> <<>>,
     hasAIInsight |-> NoFlag]

(* { $regex: pattern, $options: 'i' } on the normalized names the store holds *)
RegexMatches(pattern, text) ==
    pattern = text \/ <<pattern, text>> \in {<<"lon", "london">>, <<"par", "paris">>}

(* { $in: wanted } on an array field *)
AnyIn(wanted, tags) ==
    \E i \in 1 .. Len(wanted), j \in 1 .. Len(tags) : wanted[i] = tags[j]

MatchesQuery(q, filters) ==
    /\ (filters.location.has /\ filters.location.val # "")
          => RegexMatches(normalizeLocation(filters.location.val), q.locationNormalized)
    /\ filters.dateFrom.has => q.dateRange.startDate.day >= filters.dateFrom.val.day
    /\ filters.dateTo.has => q.dateRange.startDate.day <= filters.dateTo.val.day
    /\ Len(filters.tags) > 0 => AnyIn(filters.tags, q.tags)

(* .sort({ createdAt: -1 }) *)
RECURSIVE SortNewestFirst(_)
SortNewestFirst(S) ==
    IF S = {} THEN <<>>
    ELSE LET newest == CHOOSE q \in S : \A r \in S : r.createdAt <= q.createdAt
         IN  <<newest>> \o SortNewestFirst(S \ {newest})

(* Math.ceil(a / b) for a >= 0 and b # 0 *)
MathCeilDiv(a, b) == IF b > 0 THEN (a + b - 1) \div b ELSE -(a \div (-b))

MathMin(a, b) == IF a < b THEN a ELSE b

Page(status, data, totalCount, page, limit, totalPages) ==
    [status |-> status, data |-> data, totalCount |-> totalCount, page |-> page,
     limit |-> limit, totalPages |-> totalPages]

listWeatherQueriesSkipPages(qs, filters, page, limit) ==
    LET sorted == SortNewestFirst({q \in qs : MatchesQuery(q, filters)})
        skip == page * limit
        size == IF limit < 0 THEN -limit ELSE limit
    IN  IF skip < 0 THEN Page("error", <<>>, 0, page, limit, 0)
        ELSE Page("ok", SubSeq(sorted, skip + 1, MathMin(skip + size, Len(sorted))),
                  Len(sorted), page, limit, MathCeilDiv(Len(sorted), limit))

(* The store refuses a negative skip (the call then throws 'Failed to fetch
   weather queries'); the driver sends a negative limit as its absolute
   value. *)
listWeatherQueries(qs, filters, page, limit) ==
    LET sorted == SortNewestFirst({q \in qs : MatchesQuery(q, filters)})
        skip == (page - 1) * limit
        size == IF limit < 0 THEN -limit ELSE limit
    IN  IF skip < 0 THEN Page("error", <<>>, 0, page, limit, 0)
        ELSE Page("ok", SubSeq(sorted, skip + 1, MathMin(skip + size, Len(sorted))),
                  Len(sorted), page, limit, MathCeilDiv(Len(sorted), limit))

-----------------------------------------------------------------------------
(* The validator applied to every pair of dates around the policy limits *)

DateDays ==
    (-(LeapYearDays + DaySlack) .. -(CommonYearDays - DaySlack))
        \cup (-DaySlack .. (ForecastHorizonDays + FallbackSpanDays + DaySlack))

DateStrings == {MkDate(d) : d \in DateDays} \cup {BadDate}

DateRanges == [startDate : DateStrings, endDate : DateStrings]

NoValidation == [isValid |-> FALSE, errors |-> <<>>, adjustedRange |-> DefaultRange(0)]

NoRequest ==
    [location |-> "", dateRange |-> NoRange.val, userNotes |-> NoString, tags |-> NoTags]
NoUpdates ==
    [location |-> NoString, dateRange |-> NoRange, userNotes |-> NoString, tags |-> NoTags]
NoEnv == [w1 |-> FALSE, w2 |-> FALSE, fc |-> FALSE]

Call(op, id, request, updates, env, status, res, ins) ==
    [op |-> op, id |-> id, req |-> request, upd |-> updates, env |-> env,
     status |-> status, res |-> res, ins |-> ins, code |-> 0]

NoCall == Call("none", MalformedId, NoRequest, NoUpdates, NoEnv, "none", NoDoc, NoInsight)

(* an HTTP exchange: the request, the status code and the body answered *)
Http(method, id, request, updates, env, status, code, res, ins) ==
    [Call(method, id, request, updates, env, status, res, ins) EXCEPT !.code = code]

(* a query-string parameter: absent, or a string that parseInt reads as the
   integer n, or one it cannot read *)
Absent == [given |-> FALSE, numeric |-> FALSE, n |-> 0]
NotANumber == [given |-> TRUE, numeric |-> FALSE, n |-> 0]
Num(n) == [given |-> TRUE, numeric |-> TRUE, n |-> n]

NoListQuery == [filters |-> NoFilters, page |-> Absent, limit |-> Absent]

Listing(handler, query, filters, code, result) ==
    [handler |-> handler, query |-> query, filters |-> filters, code |-> code,
     result |-> result]

NoListing == Listing("none", NoListQuery, NoFilters, 0, Page("none", <<>>, 0, 0, 0, 0))

Procs == 1 .. NumProcs

NoLocal == [id |-> MalformedId, doc |-> NoDoc, upd |-> NoUpdates, env |-> NoEnv, t |-> 0]

EmptyStore ==
    /\ queries = {}
    /\ insights = {}
    /\ nextId = 1
    /\ nextInsightId = 1
    /\ last = NoCall
    /\ pc = [p \in Procs |-> "idle"]
    /\ loc = [p \in Procs |-> NoLocal]
    /\ listed = NoListing
    /\ input = <<>>
    /\ output = <<>>

InitDate ==
    /\ now \in 0 .. MaxNow
    /\ yearLen \in {CommonYearDays, LeapYearDays}
    /\ arg \in DateRanges
    /\ called = FALSE
    /\ dv = NoValidation
    /\ apiKey = FALSE
    /\ EmptyStore

ValidateCall ==
    /\ ~called
    /\ called' = TRUE
    /\ dv' = validateDateRange(arg, now, yearLen)
    /\ UNCHANGED <<now, yearLen, arg, storeVars, apiKey, last, procVars, listed, pureVars>>

NextDate == ValidateCall

SpecDate == InitDate /\ [][NextDate]_vars

-----------------------------------------------------------------------------
(* The service and its handlers, one call at a time *)

Range(a, b) == [startDate |-> MkDate(a), endDate |-> MkDate(b)]

RangeA == Range(1, 2)
RangeB == Range(1, 1)
RangeReversed == Range(2, 1)

RequestOf(l, r, n, g) == [location |-> l, dateRange |-> r, userNotes |-> n, tags |-> g]

CreateRequests ==
    {RequestOf(l, RangeA, o[1], o[2]) :
        l \in {"london", "Paris"},
        o \in {<<NoString, NoTags>>, <<Some("note"), Some(<<"trip">>)>>}}
        \cup {RequestOf("Atlantis", RangeA, NoString, NoTags),
              RequestOf("london", RangeReversed, Some("note"), NoTags)}

UpdateOf(l, r, n, g) == [location |-> l, dateRange |-> r, userNotes |-> n, tags |-> g]

UpdateRequests ==
    {UpdateOf(Some(l), NoRange, NoString, NoTags) : l \in {"london", "Paris", "Atlantis"}}
        \cup {UpdateOf(NoString, Some(r), NoString, NoTags) : r \in {RangeB, RangeReversed}}
        \cup {UpdateOf(NoString, NoRange, Some("edited"), NoTags),
              UpdateOf(NoString, NoRange, NoString, Some(<<>>)),
              UpdateOf(Some("Paris"), Some(RangeReversed), NoString, NoTags)}

Ids == MalformedId .. MaxQueries

StoredIds == 1 .. MaxQueries

Init ==
    /\ now = 0
    /\ yearLen = CommonYearDays
    /\ arg = RangeA
    /\ called = FALSE
    /\ dv = NoValidation
    /\ apiKey = FALSE
    /\ EmptyStore

Tick(wrote) == now' = IF wrote THEN now + 1 ELSE now

(* A call that left the store as it was (a read, a refusal) hands back its
   answer before the next call is taken; a call that wrote may be followed
   at once. *)
Writes == {"create", "update", "delete", "POST", "PUT", "DELETE"}

Ready == last = NoCall \/ (last.op \in Writes /\ last.status = "ok")

Return ==
    /\ ~Ready
    /\ last' = NoCall
    /\ UNCHANGED <<now, storeVars, apiKey, yearLen, dateVars, procVars, listed, pureVars>>

Create(request, env) ==
    LET r == createWeatherQuery(queries, nextId, request, env, now, yearLen)
    IN  /\ Ready
        /\ now < MaxNow
        /\ nextId <= MaxQueries
        /\ queries' = r.queries
        /\ nextId' = IF r.status = "ok" THEN nextId + 1 ELSE nextId
        /\ last' = Call("create", r.res._id, request, NoUpdates, env, r.status, r.res, NoInsight)
        /\ Tick(r.status = "ok")
        /\ UNCHANGED <<insights, nextInsightId, apiKey, yearLen, dateVars, procVars, listed, pureVars>>

Get(id) ==
    /\ Ready
    /\ last' = Call("get", id, NoRequest, NoUpdates, NoEnv,
                    IF getWeatherQuery(queries, id) = NoDoc THEN "null" ELSE "ok",
                    getWeatherQuery(queries, id), NoInsight)
    /\ UNCHANGED <<now, storeVars, apiKey, yearLen, dateVars, procVars, listed, pureVars>>

Update(id, updates, env) ==
    LET r == updateWeatherQuery(queries, id, updates, env, now, yearLen)
    IN  /\ Ready
        /\ now < MaxNow
        /\ queries' = r.queries
        /\ last' = Call("update", id, NoRequest, updates, env, r.status, r.res, NoInsight)
        /\ Tick(r.status = "ok")
        /\ UNCHANGED <<insights, nextId, nextInsightId, apiKey, yearLen, dateVars, procVars, listed, pureVars>>

Delete(id) ==
    LET r == deleteWeatherQuery(queries, insights, id)
    IN  /\ Ready
        /\ now < MaxNow
        /\ queries' = r.queries
        /\ insights' = r.insights
        /\ last' = Call("delete", id, NoRequest, NoUpdates, NoEnv,
                        IF r.deleted THEN "ok" ELSE "null", NoDoc, NoInsight)
        /\ Tick(r.deleted)
        /\ UNCHANGED <<nextId, nextInsightId, apiKey, yearLen, dateVars, procVars, listed, pureVars>>

Next ==
    \/ \E request \in CreateRequests :
          \E env \in EnvsOf(validateDateRange(request.dateRange, now, yearLen).isValid) :
              Create(request, env)
    \/ \E id \in Ids : Get(id)
    \/ \E id \in Ids, updates \in UpdateRequests :
          \E env \in EnvsOf(updates.location.has) : Update(id, updates, env)
    \/ \E id \in Ids : Delete(id)
    \/ Return

Spec == Init /\ [][Next]_vars

-----------------------------------------------------------------------------
(* The HTTP handlers of pages/api/weather-queries, one request at a time *)

InitHttp ==
    /\ now = 0
    /\ yearLen = CommonYearDays
    /\ arg = RangeA
    /\ called = FALSE
    /\ dv = NoValidation
    /\ apiKey \in BOOLEAN
    /\ EmptyStore

(* request bodies sent to the handlers: one that is served, one naming a
   place the provider does not know, one with a reversed range *)
HttpCreateRequests ==
    {RequestOf("london", RangeA, NoString, NoTags),
     RequestOf("Atlantis", RangeA, NoString, NoTags),
     RequestOf("london", RangeReversed, Some("note"), NoTags)}

HttpUpdateRequests ==
    {UpdateOf(Some("Paris"), NoRange, NoString, NoTags),
     UpdateOf(Some("Atlantis"), NoRange, NoString, NoTags),
     UpdateOf(NoString, Some(RangeReversed), NoString, NoTags),
     UpdateOf(NoString, NoRange, Some("edited"), NoTags)}

(* the gateway outcomes a request consults: none without a credential *)
Gateways == IF apiKey THEN BOOLEAN ELSE {TRUE}

(* the status the catch blocks of handlePost and handlePut answer with *)
ErrorCode(status) ==
    IF status \in {"invalid_date", "location_not_found"} THEN 400 ELSE 500

handlePostInsightRequired(request, env, gateway) ==
    LET r == createWeatherQuery(queries, nextId, request, env, now, yearLen)
        g == generateAIInsight(r.queries, insights, nextInsightId, r.res._id, apiKey,
                               gateway, now)
    IN  /\ Ready
        /\ request.location # "" /\ r.status = "ok" /\ g.status # "ok"
        /\ last' = Http("POST", MalformedId, request, NoUpdates, env, g.status, 500,
                        NoDoc, NoInsight)
        /\ UNCHANGED <<now, storeVars, apiKey, yearLen, dateVars, procVars, listed, pureVars>>

handlePost(request, env, gateway) ==
    LET r == createWeatherQuery(queries, nextId, request, env, now, yearLen)
        g == generateAIInsight(r.queries, insights, nextInsightId, r.res._id, apiKey,
                               gateway, now)
    IN  /\ Ready
        /\ now < MaxNow
        /\ nextId <= MaxQueries
        /\ (r.status = "ok" /\ g.status = "ok") => nextInsightId <= MaxInsights
        /\ IF request.location = ""
           THEN /\ last' = Http("POST", MalformedId, request, NoUpdates, env, "missing",
                                400, NoDoc, NoInsight)
                /\ UNCHANGED <<now, storeVars>>
           ELSE IF r.status # "ok"
           THEN /\ last' = Http("POST", MalformedId, request, NoUpdates, env, r.status,
                                ErrorCode(r.status), NoDoc, NoInsight)
                /\ UNCHANGED <<now, storeVars>>
           ELSE /\ queries' = r.queries
                /\ nextId' = nextId + 1
                /\ insights' = g.insights
                /\ nextInsightId' =
                     IF g.status = "ok" THEN nextInsightId + 1 ELSE nextInsightId
                /\ last' = Http("POST", r.res._id, request, NoUpdates, env, "ok", 201,
                                r.res, g.res)
                /\ now' = now + 1
        /\ UNCHANGED <<apiKey, yearLen, dateVars, procVars, listed, pureVars>>

(* handlePost when generateAIInsight throws after the query was created (the
   store refuses the insight): the catch block leaves aiInsight null *)
handlePostInsightThrows(request, env) ==
    LET r == createWeatherQuery(queries, nextId, request, env, now, yearLen)
    IN  /\ Ready
        /\ now < MaxNow
        /\ nextId <= MaxQueries
        /\ apiKey
        /\ request.location # "" /\ r.status = "ok"
        /\ queries' = r.queries
        /\ nextId' = nextId + 1
        /\ last' = Http("POST", r.res._id, request, NoUpdates, env, "ok", 201, r.res,
                        NoInsight)
        /\ now' = now + 1
        /\ UNCHANGED <<insights, nextInsightId, apiKey, yearLen, dateVars, procVars, listed, pureVars>>

handlePut(id, updates, env, gateway) ==
    LET r == updateWeatherQuery(queries, id, updates, env, now, yearLen)
        g == generateAIInsight(r.queries, insights, nextInsightId, id, apiKey, gateway, now)
    IN  /\ Ready
        /\ now < MaxNow
        /\ IF r.status = "null"
           THEN /\ last' = Http("PUT", id, NoRequest, updates, env, r.status, 404,
                                NoDoc, NoInsight)
                /\ UNCHANGED <<now, storeVars>>
           ELSE IF r.status # "ok"
           THEN /\ last' = Http("PUT", id, NoRequest, updates, env, r.status,
                                ErrorCode(r.status), NoDoc, NoInsight)
                /\ UNCHANGED <<now, storeVars>>
           ELSE \E existingInsight \in getAIInsight(insights, id) :
                /\ queries' = r.queries
                /\ now' = now + 1
                /\ UNCHANGED nextId
                /\ IF updates.location.has /\ updates.location.val # ""
                   THEN IF existingInsight # NoInsight
                        THEN /\ g.status = "ok" => nextInsightId <= MaxInsights
                             /\ insights' = g.insights
                             /\ nextInsightId' =
                                  IF g.status = "ok" THEN nextInsightId + 1
                                  ELSE nextInsightId
                             /\ last' = Http("PUT", id, NoRequest, updates, env, "ok",
                                             200, r.res, g.res)
                        ELSE /\ last' = Http("PUT", id, NoRequest, updates, env, "ok",
                                             200, r.res, NoInsight)
                             /\ UNCHANGED <<insights, nextInsightId>>
                   ELSE /\ last' = Http("PUT", id, NoRequest, updates, env, "ok", 200,
                                        r.res, existingInsight)
                        /\ UNCHANGED <<insights, nextInsightId>>
        /\ UNCHANGED <<apiKey, yearLen, dateVars, procVars, listed, pureVars>>

handleGet(id) ==
    LET weatherQuery == getWeatherQuery(queries, id)
    IN  /\ Ready
        /\ IF weatherQuery = NoDoc
           THEN last' = Http("GET", id, NoRequest, NoUpdates, NoEnv, "null", 404,
                             NoDoc, NoInsight)
           ELSE \E aiInsight \in getAIInsight(insights, id) :
                   last' = Http("GET", id, NoRequest, NoUpdates, NoEnv, "ok", 200,
                                weatherQuery, aiInsight)
        /\ UNCHANGED <<now, storeVars, apiKey, yearLen, dateVars, procVars, listed, pureVars>>

handleDelete(id) ==
    LET r == deleteWeatherQuery(queries, insights, id)
    IN  /\ Ready
        /\ r.deleted => now < MaxNow
        /\ queries' = r.queries
        /\ insights' = r.insights
        /\ last' = Http("DELETE", id, NoRequest, NoUpdates, NoEnv,
                        IF r.deleted THEN "ok" ELSE "null",
                        IF r.deleted THEN 204 ELSE 404, NoDoc, NoInsight)
        /\ Tick(r.deleted)
        /\ UNCHANGED <<nextId, nextInsightId, apiKey, yearLen, dateVars, procVars, listed, pureVars>>

(* handleDelete when the store fails inside deleteWeatherQuery *)
handleDeleteInterrupted(id, completed) ==
    LET r == deleteWeatherQueryInterrupted(queries, insights, id, completed)
    IN  /\ Ready
        /\ queries' = r.queries
        /\ insights' = r.insights
        /\ last' = Http("DELETE", id, NoRequest, NoUpdates, NoEnv,
                        IF completed = 0 THEN "interrupted" ELSE "interrupted_between",
                        404, NoDoc, NoInsight)
        /\ UNCHANGED <<now, nextId, nextInsightId, apiKey, yearLen, dateVars, procVars, listed, pureVars>>

NextHttp ==
    \/ \E request \in HttpCreateRequests :
          \E env \in EnvsOf(validateDateRange(request.dateRange, now, yearLen).isValid) :
              \E gateway \in Gateways : handlePost(request, env, gateway)
    \/ \E request \in HttpCreateRequests :
          \E env \in EnvsOf(validateDateRange(request.dateRange, now, yearLen).isValid) :
              handlePostInsightThrows(request, env)
    \/ \E id \in Ids, updates \in HttpUpdateRequests :
          \E env \in EnvsOf(updates.location.has) :
              \E gateway \in Gateways : handlePut(id, updates, env, gateway)
    \/ \E id \in Ids : handleGet(id)
    \/ \E id \in Ids : handleDelete(id)
    \/ \E id \in StoredIds, completed \in 0 .. 1 : handleDeleteInterrupted(id, completed)
    \/ Return

SpecHttp == InitHttp /\ [][NextHttp]_vars

-----------------------------------------------------------------------------
(* GET /api/weather-queries and GET /api/export over a store filled by POST.
   A listing leaves the store as it is, so one listing is followed per
   behaviour. *)

DefaultPage == 1
DefaultLimit == 10
ListCap == 50
ExportDefaultLimit == 100
ExportCap == 1000

parseInt(param) ==
    IF param.numeric THEN [nan |-> FALSE, n |-> param.n] ELSE [nan |-> TRUE, n |-> 0]

(* value || fallback: NaN and 0 are falsy *)
OrElse(value, fallback) == IF value.nan \/ value.n = 0 THEN fallback ELSE value.n

(* a destructuring default: it applies when the parameter is absent *)
WithDefault(param, default) == IF param.given THEN param ELSE Num(default)

pageNumOf(query) == OrElse(parseInt(WithDefault(query.page, DefaultPage)), DefaultPage)

limitNumOf(query) ==
    MathMin(OrElse(parseInt(WithDefault(query.limit, DefaultLimit)), DefaultLimit), ListCap)

exportLimitNumOf(query) ==
    MathMin(OrElse(parseInt(WithDefault(query.limit, ExportDefaultLimit)),
                   ExportDefaultLimit), ExportCap)

ListFilters ==
    {NoFilters,
     [NoFilters EXCEPT !.location = Some("lon")],
     [NoFilters EXCEPT !.tags = <<"trip">>],
     [NoFilters EXCEPT !.dateFrom = Some(MkDate(2))],
     [NoFilters EXCEPT !.hasAIInsight = Some(TRUE)],
     [NoFilters EXCEPT !.hasAIInsight = Some(FALSE)]}

PageParams == {Absent, NotANumber, Num(-1), Num(0), Num(1), Num(2), Num(3)}

LimitParams ==
    {Absent, NotANumber, Num(-2), Num(0), Num(1), Num(2), Num(ListCap + 1),
     Num(ExportCap + 1)}

ListQueries == [filters : ListFilters, page : PageParams, limit : LimitParams]

ListRequests ==
    {RequestOf("london", RangeA, NoString, NoTags),
     RequestOf("Paris", RangeA, Some("note"), Some(<<"trip">>))}

InitList ==
    /\ now = 0
    /\ yearLen = CommonYearDays
    /\ arg = RangeA
    /\ called = FALSE
    /\ dv = NoValidation
    /\ apiKey \in BOOLEAN
    /\ EmptyStore

(* handlePost, as far as it fills the two collections *)
ListPost(request) ==
    LET r == createWeatherQuery(queries, nextId, request, AllUp, now, yearLen)
        g == generateAIInsight(r.queries, insights, nextInsightId, r.res._id, apiKey,
                               TRUE, now)
    IN  /\ listed = NoListing
        /\ nextId <= MaxListed
        /\ r.status = "ok"
        /\ queries' = r.queries
        /\ nextId' = nextId + 1
        /\ insights' = g.insights
        /\ nextInsightId' = IF g.status = "ok" THEN nextInsightId + 1 ELSE nextInsightId
        /\ now' = now + 1
        /\ UNCHANGED <<apiKey, yearLen, dateVars, last, procVars, listed, pureVars>>

(* handleGet of pages/api/weather-queries/index.ts *)
handleList(query) ==
    LET result == listWeatherQueries(queries, query.filters, pageNumOf(query),
                                     limitNumOf(query))
    IN  /\ listed = NoListing
        /\ listed' = Listing("list", query, query.filters,
                             IF result.status = "ok" THEN 200 ELSE 500, result)
        /\ UNCHANGED <<now, storeVars, apiKey, yearLen, dateVars, last, procVars, pureVars>>

(* handler of pages/api/export, up to the records it hands to the exporter *)
handleExport(query) ==
    LET result == listWeatherQueries(queries, query.filters, DefaultPage,
                                     exportLimitNumOf(query))
    IN  /\ listed = NoListing
        /\ query.page = Absent
        /\ listed' = Listing("export", query, query.filters,
                             IF result.status = "ok" THEN 200 ELSE 500, result)
        /\ UNCHANGED <<now, storeVars, apiKey, yearLen, dateVars, last, procVars, pureVars>>

NextList ==
    \/ \E request \in ListRequests : ListPost(request)
    \/ \E query \in ListQueries : handleList(query)
    \/ \E query \in ListQueries : handleExport(query)

SpecList == InitList /\ [][NextList]_vars

-----------------------------------------------------------------------------
(* Requests in flight at once: each service call issues its store
   operations one await at a time, and the calls of other requests run in
   between. *)

ConcRequests == {RequestOf("london", RangeA, NoString, NoTags)}

ConcUpdates ==
    {UpdateOf(NoString, NoRange, Some("edited"), NoTags),
     UpdateOf(NoString, NoRange, NoString, Some(<<"trip">>))}

ConcGateways == {TRUE}

InitConc ==
    /\ now = 0
    /\ yearLen = CommonYearDays
    /\ arg = RangeA
    /\ called = FALSE
    /\ dv = NoValidation
    /\ apiKey = TRUE
    /\ EmptyStore

Goto(p, label, local) ==
    /\ pc' = [pc EXCEPT ![p] = label]
    /\ loc' = [loc EXCEPT ![p] = local]

Frame == UNCHANGED <<now, yearLen, dateVars, apiKey, last, listed, pureVars>>

(* createWeatherQuery: validation and fetches, then collection.insertOne *)
CreateInsert(p, request, env) ==
    LET r == createWeatherQuery(queries, nextId, request, env, now, yearLen)
    IN  /\ pc[p] = "idle"
        /\ nextId <= MaxQueries
        /\ r.status = "ok"
        /\ queries' = r.queries
        /\ nextId' = nextId + 1
        /\ Goto(p, "createFind", [NoLocal EXCEPT !.id = r.res._id])
        /\ UNCHANGED <<insights, nextInsightId>>
        /\ Frame

(* createWeatherQuery: collection.findOne({ _id: result.insertedId }) *)
CreateFind(p) ==
    /\ pc[p] = "createFind"
    /\ Goto(p, "idle", NoLocal)
    /\ UNCHANGED storeVars
    /\ Frame

(* generateAIInsight: getWeatherQuery(queryId) and the availability check *)
GenRead(p, id) ==
    LET weatherQuery == getWeatherQuery(queries, id)
    IN  /\ pc[p] = "idle"
        /\ weatherQuery # NoDoc
        /\ apiKey
        /\ Goto(p, "genInsert", [NoLocal EXCEPT !.id = id, !.doc = weatherQuery])
        /\ UNCHANGED storeVars
        /\ Frame

(* generateAIInsight: the gateway calls, then collection.insertOne(aiInsight) *)
GenInsert(p, gateway) ==
    /\ pc[p] = "genInsert"
    /\ nextInsightId <= MaxInsights
    /\ insights' = insights \cup
          {NewInsight(nextInsightId, loc[p].id, loc[p].doc, gateway, now)}
    /\ nextInsightId' = nextInsightId + 1
    /\ Goto(p, "idle", NoLocal)
    /\ UNCHANGED <<queries, nextId>>
    /\ Frame

(* updateWeatherQuery: the fetches and the validation that build updateDoc *)
UpdatePrepare(p, id, updates, env) ==
    LET r == updateWeatherQuery({[NoDoc EXCEPT !._id = id]}, id, updates, env, now, yearLen)
    IN  /\ pc[p] = "idle"
        /\ r.status = "ok"
        /\ Goto(p, "updateWrite",
                [NoLocal EXCEPT !.id = id, !.upd = updates, !.env = env, !.t = now])
        /\ UNCHANGED storeVars
        /\ Frame

(* updateWeatherQuery: collection.findOneAndUpdate({ _id }, { $set: updateDoc }) *)
UpdateWrite(p) ==
    LET r == updateWeatherQuery(queries, loc[p].id, loc[p].upd, loc[p].env, loc[p].t,
                                yearLen)
    IN  /\ pc[p] = "updateWrite"
        /\ queries' = r.queries
        /\ Goto(p, "idle", NoLocal)
        /\ UNCHANGED <<insights, nextId, nextInsightId>>
        /\ Frame

(* deleteWeatherQuery: insightsCollection.deleteMany({ queryId: id }) *)
DeleteInsights(p, id) ==
    /\ pc[p] = "idle"
    /\ insights' = {i \in insights : i.queryId # id}
    /\ Goto(p, "deleteQuery", [NoLocal EXCEPT !.id = id])
    /\ UNCHANGED <<queries, nextId, nextInsightId>>
    /\ Frame

(* deleteWeatherQuery: collection.deleteOne({ _id: new ObjectId(id) }) *)
DeleteQuery(p) ==
    /\ pc[p] = "deleteQuery"
    /\ queries' = {q \in queries : q._id # loc[p].id}
    /\ Goto(p, "idle", NoLocal)
    /\ UNCHANGED <<insights, nextId, nextInsightId>>
    /\ Frame

NextConc ==
    \E p \in Procs :
        \/ \E request \in ConcRequests : CreateInsert(p, request, AllUp)
        \/ CreateFind(p)
        \/ \E id \in StoredIds : GenRead(p, id)
        \/ \E gateway \in ConcGateways : GenInsert(p, gateway)
        \/ \E id \in StoredIds, updates \in ConcUpdates :
              \E env \in EnvsOf(updates.location.has) : UpdatePrepare(p, id, updates, env)
        \/ UpdateWrite(p)
        \/ \E id \in StoredIds : DeleteInsights(p, id)
        \/ DeleteQuery(p)

SpecConc == InitConc /\ [][NextConc]_vars

-----------------------------------------------------------------------------
(* Functions studied on their own: the argument is drawn by the initial
   state and the call stores what it returned *)

Quiet ==
    /\ now = 0
    /\ yearLen = CommonYearDays
    /\ arg = RangeA
    /\ called = FALSE
    /\ dv = NoValidation
    /\ apiKey = FALSE
    /\ queries = {}
    /\ insights = {}
    /\ nextId = 1
    /\ nextInsightId = 1
    /\ last = NoCall
    /\ pc = [p \in Procs |-> "idle"]
    /\ loc = [p \in Procs |-> NoLocal]
    /\ listed = NoListing

Returns(value) ==
    /\ output = <<>>
    /\ output' = <<value>>
    /\ UNCHANGED <<now, yearLen, dateVars, storeVars, apiKey, last, procVars, listed, input>>

SeqsUpTo(S, n) == UNION {[1 .. k -> S] : k \in 0 .. n}

-----------------------------------------------------------------------------
(* AIService.parseAIResponse.  A reply is a sequence of pieces of text:
   braces, line breaks, blanks, a bullet, words, and the members a JSON
   object may hold. *)

MaxReply == 4

MemberSummary == "\"summary\":\"s\""
MemberRecs == "\"recommendations\":[\"r\"]"
MemberBoth == "\"summary\":\"s\",\"recommendations\":[\"r\"]"
Members == {MemberSummary, MemberRecs, MemberBoth}
Blank == {"\n", " "}
Pieces == {"{", "}", "-", "recommend", "travel", "sunny"} \cup Blank \cup Members
Replies == SeqsUpTo(Pieces, MaxReply)

(* the pieces whose text includes 'recommend', and 'travel' *)
RecommendPieces == {"recommend", MemberRecs, MemberBoth}
TravelPieces == {"travel"}

Undefined == [has |-> FALSE, val |-> <<>>]

Positions(text, piece) == {k \in 1 .. Len(text) : text[k] = piece}
Least(S) == CHOOSE k \in S : \A other \in S : k <= other
Greatest(S) == CHOOSE k \in S : \A other \in S : k >= other

(* response.match(/\{[\s\S]*\}/): from the first '{' to the last '}' *)
jsonMatch(response) ==
    LET opens == Positions(response, "{")
        closes == Positions(response, "}")
    IN  IF opens # {} /\ closes # {} /\ Greatest(closes) > Least(opens)
        THEN Some(SubSeq(response, Least(opens), Greatest(closes)))
        ELSE Undefined

(* JSON.parse of a text that starts with '{' and ends with '}': an object of
   at most one member piece (a second one would lack its comma), white
   space allowed around it; anything else is a SyntaxError *)
JSONparse(text) ==
    LET body == SelectSeq(SubSeq(text, 2, Len(text) - 1), LAMBDA piece : piece \notin Blank)
    IN  IF Len(body) = 0 THEN [threw |-> FALSE, summary |-> Undefined, recommendations |-> Undefined]
        ELSE IF Len(body) = 1 /\ body[1] \in Members
        THEN [threw |-> FALSE,
              summary |-> IF body[1] \in {MemberSummary, MemberBoth} THEN Some(<<"s">>) ELSE Undefined,
              recommendations |-> IF body[1] \in {MemberRecs, MemberBoth} THEN Some(<<<<"r">>>>) ELSE Undefined]
        ELSE [threw |-> TRUE, summary |-> Undefined, recommendations |-> Undefined]

(* the object built from the parsed JSON, lines 443-454 *)
FromJson(parsed, response) ==
    [threw |-> FALSE,
     path |-> "json",
     insight |-> IF parsed.summary.has THEN parsed.summary.val ELSE response,
     recommendations |-> parsed.recommendations.val,
     weatherSummary |-> parsed.summary.val,
     travelAdvice |-> Undefined,
     clothingRecommendations |-> Some(<<>>)]

RECURSIVE split(_)
(* response.split('\n') *)
split(text) ==
    LET breaks == Positions(text, "\n")
    IN  IF breaks = {} THEN <<text>>
        ELSE <<SubSeq(text, 1, Least(breaks) - 1)>>
             \o split(SubSeq(text, Least(breaks) + 1, Len(text)))

RECURSIVE trim(_)
(* String.trim *)
trim(line) ==
    IF Len(line) = 0 THEN line
    ELSE IF line[1] \in Blank THEN trim(Tail(line))
    ELSE IF line[Len(line)] \in Blank THEN trim(SubSeq(line, 1, Len(line) - 1))
    ELSE line

(* String.includes of one of the words *)
Includes(line, words) == \E k \in 1 .. Len(line) : line[k] \in words

RECURSIVE dropBlank(_)
dropBlank(line) ==
    IF Len(line) > 0 /\ line[1] \in Blank THEN dropBlank(Tail(line)) ELSE line

(* cleanLine.replace(/^[-•*]\s*/, '') *)
stripBullet(cleanLine) ==
    IF Len(cleanLine) > 0 /\ cleanLine[1] = "-" THEN dropBlank(Tail(cleanLine))
    ELSE cleanLine

(* response.slice(0, 150): every piece is under 30 characters long, so a
   reply of up to five pieces is shorter than the slice *)
SliceEnd == 150
slice(text, n) == SubSeq(text, 1, MathMin(Len(text), n))

RECURSIVE forEachLine(_, _)
(* lines.forEach of lines 466-475, from the state acc *)
forEachLine(lines, acc) ==
    IF Len(lines) = 0 THEN acc
    ELSE LET cleanLine == trim(lines[1])
             next == IF Includes(cleanLine, RecommendPieces)
                     THEN [acc EXCEPT !.recommendations = Append(@, stripBullet(cleanLine))]
                     ELSE IF Includes(cleanLine, TravelPieces)
                     THEN [acc EXCEPT !.travelAdvice = cleanLine]
                     ELSE IF Len(cleanLine) > 0 /\ Len(acc.insight) = 0
                     THEN [acc EXCEPT !.insight = cleanLine]
                     ELSE acc
         IN  forEachLine(Tail(lines), next)

DefaultRecommendation == <<"Check current conditions before going out">>

TextFallbackNoDefaults(response) ==
    LET lines == SelectSeq(split(response), LAMBDA line : Len(trim(line)) > 0)
        acc == forEachLine(lines, [recommendations |-> <<>>, insight |-> <<>>, travelAdvice |-> <<>>])
    IN  [threw |-> FALSE,
         path |-> "lines",
         insight |-> acc.insight,
         recommendations |-> acc.recommendations,
         weatherSummary |-> acc.insight,
         travelAdvice |-> Some(acc.travelAdvice),
         clothingRecommendations |-> Undefined]

(* the text parsing of lines 461-483 *)
TextFallback(response) ==
    LET lines == SelectSeq(split(response), LAMBDA line : Len(trim(line)) > 0)
        acc == forEachLine(lines, [recommendations |-> <<>>, insight |-> <<>>, travelAdvice |-> <<>>])
    IN  [threw |-> FALSE,
         path |-> "lines",
         insight |-> IF Len(acc.insight) > 0 THEN acc.insight
                     ELSE slice(response, SliceEnd) \o <<"...">>,
         recommendations |-> IF Len(acc.recommendations) > 0 THEN acc.recommendations
                             ELSE <<DefaultRecommendation>>,
         weatherSummary |-> acc.insight,
         travelAdvice |-> Some(acc.travelAdvice),
         clothingRecommendations |-> Undefined]

Thrown == [threw |-> TRUE, path |-> "none", insight |-> <<>>, recommendations |-> <<>>, weatherSummary |-> <<>>, travelAdvice |-> Undefined, clothingRecommendations |-> Undefined]

parseAIResponseUncaught(response) ==
    LET m == jsonMatch(response)
    IN  IF m.has
        THEN IF JSONparse(m.val).threw THEN Thrown ELSE FromJson(JSONparse(m.val), response)
        ELSE TextFallback(response)

parseAIResponse(response) ==
    LET m == jsonMatch(response)
    IN  IF m.has /\ ~JSONparse(m.val).threw
        THEN FromJson(JSONparse(m.val), response)
        ELSE TextFallback(response)

InitParse == Quiet /\ input \in {<<response>> : response \in Replies} /\ output = <<>>

ParseReply == Returns(parseAIResponse(input[1]))

NextParse == ParseReply

SpecParse == InitParse /\ [][NextParse]_vars

-----------------------------------------------------------------------------
(* isCoordinates and the request path of getCurrentWeather and getForecast.
   A location is a sequence of characters. *)

MaxLocation == 5

Digit == {"0", "1", "2", "3", "4", "5", "6", "7", "8", "9"}
Whitespace == {" ", "\n"}
LocationChars == {"-", ".", ",", " ", "7", "L"}

NamedLocations ==
    {<<"4", "0", ".", "7", "1", "2", "8", ",", "-", "7", "4", ".", "0", "0", "6", "0">>,
     <<"1", "0", "0", "0", "1">>,
     <<"L", "o", "n", "d", "o", "n">>}
Locations == SeqsUpTo(LocationChars, MaxLocation) \cup NamedLocations

(* the positions a regular expression can be at in text, one past the
   characters it has consumed *)
Optional(text, P, c) == P \cup {k + 1 : k \in {j \in P : j <= Len(text) /\ text[j] = c}}
Exactly(text, P, c) == {k + 1 : k \in {j \in P : j <= Len(text) /\ text[j] = c}}
RECURSIVE Star(_, _, _)
Star(text, P, C) ==
    LET more == P \cup {k + 1 : k \in {j \in P : j <= Len(text) /\ text[j] \in C}}
    IN  IF more = P THEN P ELSE Star(text, more, C)
Plus(text, P, C) == Star(text, {k + 1 : k \in {j \in P : j <= Len(text) /\ text[j] \in C}}, C)

(* -?\d+\.?\d* *)
CoordNumber(text, P) ==
    Star(text, Optional(text, Plus(text, Optional(text, P, "-"), Digit), "."), Digit)

(* /^-?\d+\.?\d*,-?\d+\.?\d*$/.test(text) *)
coordPattern(text) ==
    (Len(text) + 1) \in CoordNumber(text, Exactly(text, CoordNumber(text, {1}), ","))

isCoordinatesNoStrip(location) == coordPattern(location)

isCoordinates(location) ==
    coordPattern(SelectSeq(location, LAMBDA c : c \notin Whitespace))

RECURSIVE splitOn(_, _)
(* String.split(separator) *)
splitOn(text, separator) ==
    LET at == Positions(text, separator)
    IN  IF at = {} THEN <<text>>
        ELSE <<SubSeq(text, 1, Least(at) - 1)>>
             \o splitOn(SubSeq(text, Least(at) + 1, Len(text)), separator)

(* the query the url is extended with, lines 39-44 and 79-84 *)
urlQuery(location) ==
    IF isCoordinates(location)
    THEN LET parts == splitOn(location, ",")
         IN  [path |-> "coordinates", lat |-> trim(parts[1]), lon |-> trim(parts[2]), q |-> <<>>]
    ELSE [path |-> "name", lat |-> <<>>, lon |-> <<>>, q |-> location]

currentWeatherUrl(location) == [endpoint |-> "weather", query |-> urlQuery(location)]

forecastUrl(location) == [endpoint |-> "forecast", query |-> urlQuery(location)]

InitCoord == Quiet /\ input \in {<<location>> : location \in Locations} /\ output = <<>>

CurrentWeatherRequest == Returns(currentWeatherUrl(input[1]))

ForecastRequest == Returns(forecastUrl(input[1]))

NextCoord == CurrentWeatherRequest \/ ForecastRequest

SpecCoord == InitCoord /\ [][NextCoord]_vars

-----------------------------------------------------------------------------
(* ExportService.exportToXML, generateSimpleXML and escapeXML.  A text is a
   sequence of characters; the export is the sequence of the elements that
   carry record text, in document order. *)

MaxText == 3

TextChars == {"&", "<", ">", "\"", "'", "a"}
Texts == SeqsUpTo(TextChars, MaxText)

RECURSIVE replaceAll(_, _, _)
(* String.replace(/c/g, by) *)
replaceAll(text, c, by) ==
    IF Len(text) = 0 THEN <<>>
    ELSE (IF text[1] = c THEN by ELSE <<text[1]>>) \o replaceAll(Tail(text), c, by)

EntityAmp == <<"&", "a", "m", "p", ";">>
EntityLt == <<"&", "l", "t", ";">>
EntityGt == <<"&", "g", "t", ";">>
EntityQuot == <<"&", "q", "u", "o", "t", ";">>
EntityApos == <<"&", "a", "p", "o", "s", ";">>

escapeXMLAmpersandLast(text) ==
    replaceAll(replaceAll(replaceAll(replaceAll(replaceAll(text, "<", EntityLt), ">", EntityGt), "\"", EntityQuot), "'", EntityApos), "&", EntityAmp)

escapeXML(text) ==
    IF Len(text) = 0 THEN <<>>
    ELSE replaceAll(replaceAll(replaceAll(replaceAll(replaceAll(text, "&", EntityAmp), "<", EntityLt), ">", EntityGt), "\"", EntityQuot), "'", EntityApos)

RECURSIVE join(_, _)
(* Array.join(separator) *)
join(list, separator) ==
    IF Len(list) = 0 THEN <<>>
    ELSE IF Len(list) = 1 THEN list[1]
    ELSE list[1] \o separator \o join(Tail(list), separator)

QueryTextFields == {"location", "description", "userNotes", "tags"}
InsightTextFields ==
    {"location", "insight", "recommendations", "weatherSummary", "travelAdvice",
     "clothingRecommendations", "activitySuggestions", "model"}
ListFields == {"tags", "recommendations", "clothingRecommendations", "activitySuggestions"}

PlainText == <<"a">>

(* a stored record whose text fields are plain except the one under study *)
RecordWith(fields, field, text) ==
    [f \in fields |-> IF f \in ListFields
                      THEN IF f = field THEN <<text, PlainText>> ELSE <<PlainText>>
                      ELSE IF f = field THEN text ELSE PlainText]

Element(name, text) == [element |-> name, text |-> text]

(* the lines of generateSimpleXML that write record text, 193-229 *)
generateSimpleXML(queries_, insights_) ==
    LET query == queries_[1]
        insight == insights_[1]
    IN  (IF Len(queries_) = 0 THEN <<>>
         ELSE <<Element("query.location", escapeXML(query.location)),
                Element("query.description", escapeXML(query.description)),
                Element("query.userNotes", escapeXML(query.userNotes)),
                Element("query.tags", escapeXML(join(query.tags, <<",", " ">>)))>>)
        \o
        (IF Len(insights_) = 0 THEN <<>>
         ELSE <<Element("insight.location", escapeXML(insight.location)),
                Element("insight.insight", escapeXML(insight.insight)),
                Element("insight.recommendations",
                        escapeXML(join(insight.recommendations, <<" ", "|", " ">>))),
                Element("insight.weatherSummary", escapeXML(insight.weatherSummary)),
                Element("insight.travelAdvice", escapeXML(insight.travelAdvice)),
                Element("insight.clothingRecommendations",
                        escapeXML(join(insight.clothingRecommendations, <<" ", "|", " ">>))),
                Element("insight.activitySuggestions",
                        escapeXML(join(insight.activitySuggestions, <<" ", "|", " ">>))),
                Element("insight.model", escapeXML(insight.model))>>)

(* exportToXML: the serializer of the js2xmlparser package either returns
   its own document or throws, and then generateSimpleXML writes it *)
exportToXML(queries_, insights_, serializerThrows) ==
    IF serializerThrows
    THEN [by |-> "generateSimpleXML", elements |-> generateSimpleXML(queries_, insights_),
          mimeType |-> "application/xml"]
    ELSE [by |-> "js2xml", elements |-> <<>>, mimeType |-> "application/xml"]

XmlInputs ==
    {[kind |-> "query", field |-> f, text |-> t] : f \in QueryTextFields, t \in Texts}
    \cup {[kind |-> "insight", field |-> f, text |-> t] : f \in InsightTextFields, t \in Texts}

InitXml == Quiet /\ input \in {<<x>> : x \in XmlInputs} /\ output = <<>>

ExportXml(serializerThrows) ==
    LET x == input[1]
        queries_ == IF x.kind = "query" THEN <<RecordWith(QueryTextFields, x.field, x.text)>>
                    ELSE <<>>
        insights_ == IF x.kind = "insight" THEN <<RecordWith(InsightTextFields, x.field, x.text)>>
                     ELSE <<>>
    IN  Returns(exportToXML(queries_, insights_, serializerThrows))

NextXml == \E serializerThrows \in BOOLEAN : ExportXml(serializerThrows)

SpecXml == InitXml /\ [][NextXml]_vars

-----------------------------------------------------------------------------
(* LocationContextService.generateWeatherTips, the weatherTips of
   getLocationContext.  A description is a sequence of words. *)

MaxForecast == 2

Temperatures == {0 - 5, 5, 20, 35}
Humidities == {20, 50, 90}
WindSpeeds == {10, 30}
Descriptions == {<<"light", "Rain">>, <<"snow">>, <<"clear", "sky">>, <<"sunny">>, <<"clouds">>}
Pops == {0, 50, 51, 100}

Snapshots ==
    [temperature : Temperatures, humidity : Humidities, windSpeed : WindSpeeds,
     description : Descriptions]
Forecasts == {Undefined} \cup {Some(list) : list \in SeqsUpTo(Pops, MaxForecast)}

TipHot == "Very hot weather - stay hydrated and avoid prolonged sun exposure"
TipSunscreen == "Use SPF 30+ sunscreen and seek shade during peak hours (10 AM - 4 PM)"
TipFreezing == "Freezing temperatures - dress in layers and protect exposed skin"
TipIcy == "Be cautious of icy conditions when walking or driving"
TipCold == "Cold weather - wear warm clothing and consider a jacket"
TipHumid == "High humidity - you may feel warmer than the actual temperature"
TipBreaks == "Stay hydrated and take breaks in air-conditioned spaces if needed"
TipDry == "Low humidity - use moisturizer and stay hydrated"
TipWind == "Strong winds - secure loose items and be cautious with umbrellas"
TipRainy == "Rainy conditions - carry an umbrella and wear waterproof clothing"
TipWet == "Allow extra time for travel due to wet conditions"
TipSnowy == "Snowy conditions - wear appropriate footwear and dress warmly"
TipTransport == "Check transportation schedules as they may be affected"
TipClear == "Clear skies - great visibility and pleasant conditions for outdoor activities"
TipRainSoon == "Rain expected in the coming days - plan indoor alternatives"

(* String.toLowerCase on a word *)
toLowerCase(word) == IF word = "Rain" THEN "rain" ELSE word

(* description.toLowerCase().includes(word) *)
describes(description, word) ==
    \E k \in 1 .. Len(description) : toLowerCase(description[k]) = word

(* forecastData.list.some(day => day.pop > 50) *)
hasRainSoonEvery(list) == \A k \in 1 .. Len(list) : list[k] > 50

hasRainSoon(list) == \E k \in 1 .. Len(list) : list[k] > 50

generateWeatherTips(weatherData, forecastData) ==
    LET temp == weatherData.temperature
        humidity == weatherData.humidity
        windSpeed == weatherData.windSpeed
        description == weatherData.description
        t1 == IF temp > 30 THEN <<TipHot, TipSunscreen>>
              ELSE IF temp < 0 THEN <<TipFreezing, TipIcy>>
              ELSE IF temp < 10 THEN <<TipCold>>
              ELSE <<>>
        t2 == IF humidity > 80 THEN t1 \o <<TipHumid, TipBreaks>>
              ELSE IF humidity < 30 THEN t1 \o <<TipDry>>
              ELSE t1
        t3 == IF windSpeed > 25 THEN Append(t2, TipWind) ELSE t2
        t4 == IF describes(description, "rain") THEN t3 \o <<TipRainy, TipWet>>
              ELSE IF describes(description, "snow") THEN t3 \o <<TipSnowy, TipTransport>>
              ELSE IF describes(description, "clear") \/ describes(description, "sunny")
              THEN Append(t3, TipClear)
              ELSE t3
        tips == IF forecastData.has /\ Len(forecastData.val) > 0 /\ hasRainSoon(forecastData.val)
                THEN Append(t4, TipRainSoon)
                ELSE t4
    IN  slice(tips, 4)

(* the weatherTips of getLocationContext *)
getLocationContext(weatherData, forecastData) ==
    [weatherTips |-> generateWeatherTips(weatherData, forecastData)]

InitTips ==
    /\ Quiet
    /\ input \in {<<[weatherData |-> w, forecastData |-> f]>> : w \in Snapshots, f \in Forecasts}
    /\ output = <<>>

GetLocationContext == Returns(getLocationContext(input[1].weatherData, input[1].forecastData))

NextTips == GetLocationContext

SpecTips == InitTips /\ [][NextTips]_vars

-----------------------------------------------------------------------------
(* getForecast: the grouping of the provider's 3-hour records into days,
   lines 89-131.  Temperatures and wind speeds are in tenths, precipitation
   probabilities in thousandths, as the provider sends decimals. *)

MaxRecords == 3

(* Math.round of a value given in units of 1/scale: half rounds up *)
MathRound(n, scale) == (2 * n + scale) \div (2 * scale)

DayLabels == <<"Mon, Jan 1", "Tue, Jan 2", "Wed, Jan 3", "Thu, Jan 4", "Fri, Jan 5", "Sat, Jan 6", "Sun, Jan 7">>

Conditions ==
    {[description |-> "light rain", icon |-> "10d", humidity |-> 80, speed |-> 25, pop |-> 505],
     [description |-> "clear sky", icon |-> "01d", humidity |-> 40, speed |-> 10, pop |-> 0]}

Item(label, lo, hi, c) ==
    [date |-> label, temp_min |-> lo, temp_max |-> hi, description |-> c.description,
     icon |-> c.icon, humidity |-> c.humidity, speed |-> c.speed, pop |-> c.pop]

Items ==
    {Item(DayLabels[d], lo, hi, c) : d \in {1, 2}, lo \in {14, 26}, hi \in {15, 25}, c \in Conditions}

(* a response of perDay records for each of the first days of the week *)
WeekList(days, perDay) ==
    [k \in 1 .. days * perDay |->
        Item(DayLabels[((k - 1) \div perDay) + 1], 10 * k + 4, 10 * k + 15,
             CHOOSE c \in Conditions : (c.icon = "10d") <=> (k % 2 = 1))]

ItemLists ==
    SeqsUpTo(Items, MaxRecords)
    \cup {WeekList(days, perDay) : days \in 1 .. Len(DayLabels), perDay \in {1, 2}}

RECURSIVE SeqMin(_)
(* Math.min(...values) *)
SeqMin(values) ==
    IF Len(values) = 1 THEN values[1]
    ELSE MathMin(values[1], SeqMin(Tail(values)))

RECURSIVE SeqMax(_)
(* Math.max(...values) *)
SeqMax(values) ==
    IF Len(values) = 1 THEN values[1]
    ELSE LET rest == SeqMax(Tail(values)) IN IF values[1] > rest THEN values[1] ELSE rest

NewDay(item) ==
    [date |-> item.date,
     temperatures |-> <<item.temp_min, item.temp_max>>,
     description |-> item.description,
     icon |-> item.icon,
     humidity |-> item.humidity,
     windSpeed |-> MathRound(item.speed * 36, 100),
     pop |-> MathRound(item.pop, 10)]

RECURSIVE groupByDayFirstOnly(_, _)
groupByDayFirstOnly(list, dailyForecasts) ==
    IF Len(list) = 0 THEN dailyForecasts
    ELSE LET item == list[1]
             known == {k \in 1 .. Len(dailyForecasts) : dailyForecasts[k].date = item.date}
         IN  groupByDayFirstOnly(Tail(list),
                 IF known = {} THEN Append(dailyForecasts, NewDay(item)) ELSE dailyForecasts)

RECURSIVE groupByDay(_, _)
(* data.list.forEach of lines 92-109; dailyForecasts in insertion order *)
groupByDay(list, dailyForecasts) ==
    IF Len(list) = 0 THEN dailyForecasts
    ELSE LET item == list[1]
             known == {k \in 1 .. Len(dailyForecasts) : dailyForecasts[k].date = item.date}
         IN  groupByDay(Tail(list),
                 IF known = {} THEN Append(dailyForecasts, NewDay(item))
                 ELSE [dailyForecasts EXCEPT ![Least(known)].temperatures =
                          @ \o <<item.temp_min, item.temp_max>>])

(* Object.values(dailyForecasts).map(...) of lines 112-123 *)
forecastList(dailyForecasts) ==
    [k \in 1 .. Len(dailyForecasts) |->
        LET day == dailyForecasts[k]
        IN  [date |-> day.date,
             temperature |-> [min |-> MathRound(SeqMin(day.temperatures), 10),
                              max |-> MathRound(SeqMax(day.temperatures), 10)],
             description |-> day.description,
             icon |-> day.icon,
             humidity |-> day.humidity,
             windSpeed |-> day.windSpeed,
             pop |-> day.pop]]

(* forecastData.list of lines 125-131 *)
dailyList(list) == slice(forecastList(groupByDay(list, <<>>)), 5)

InitForecast == Quiet /\ input \in {<<list>> : list \in ItemLists} /\ output = <<>>

GetForecast == Returns(dailyList(input[1]))

NextForecast == GetForecast

SpecForecast == InitForecast /\ [][NextForecast]_vars

-----------------------------------------------------------------------------
(* validateDateRange on a server whose local clock changes (daylight saving).
   fiveDaysFromNow is five calendar days ahead at the same wall-clock time
   (setDate), the end of the fallback range is the local day 5 * 24 hours of
   elapsed time ahead (Date.now() + 5 * 24 * 60 * 60 * 1000).  clockShift is
   the difference between the two in ticks of the local clock: one tick
   forward when the clock is set forward within the window, one tick back
   when it is set back, none otherwise; the last tick of a day stands for
   the wall-clock times less than one clock change before midnight. *)

ClockShifts == {0 - 1, 0, 1}

DefaultRangeAt(t, clockShift) ==
    [startDate |-> format(t),
     endDate |-> format(t + FallbackSpanDays * TicksPerDay + clockShift)]

validateDateRangeAt(dateRange, t, ylen, clockShift) ==
    LET errors == IF Len(ParseErrors(dateRange)) = 0
                  THEN RuleErrors(dateRange, t, ylen)
                  ELSE ParseErrors(dateRange)
    IN  [isValid |-> Len(errors) = 0,
         errors |-> errors,
         adjustedRange |-> IF Len(errors) = 0 THEN dateRange
                           ELSE DefaultRangeAt(t, clockShift)]

InitZone ==
    /\ now \in 0 .. MaxNow
    /\ yearLen \in {CommonYearDays, LeapYearDays}
    /\ arg \in DateRanges
    /\ called = FALSE
    /\ dv = NoValidation
    /\ apiKey = FALSE
    /\ queries = {}
    /\ insights = {}
    /\ nextId = 1
    /\ nextInsightId = 1
    /\ last = NoCall
    /\ pc = [p \in Procs |-> "idle"]
    /\ loc = [p \in Procs |-> NoLocal]
    /\ listed = NoListing
    /\ input \in {<<clockShift>> : clockShift \in ClockShifts}
    /\ output = <<>>

(* validateDateRange(arg) *)
ValidateAt ==
    /\ ~called
    /\ called' = TRUE
    /\ dv' = validateDateRangeAt(arg, now, yearLen, input[1])
    /\ UNCHANGED <<now, yearLen, arg, storeVars, apiKey, last, procVars, listed, pureVars>>

(* validateDateRange(adjustedRange) of the result, at the same instant *)
Revalidate ==
    /\ called
    /\ output = <<>>
    /\ output' = <<validateDateRangeAt(dv.adjustedRange, now, yearLen, input[1])>>
    /\ UNCHANGED <<now, yearLen, dateVars, storeVars, apiKey, last, procVars, listed, input>>

NextZone == ValidateAt \/ Revalidate

SpecZone == InitZone /\ [][NextZone]_vars

-----------------------------------------------------------------------------
(* Updates of one record in flight at once: each call builds its updateDoc
   from its own arguments and issues one findOneAndUpdate *)

RaceUpdates ==
    {UpdateOf(NoString, NoRange, Some("edited"), NoTags),
     UpdateOf(NoString, NoRange, NoString, Some(<<"trip">>)),
     UpdateOf(Some("Paris"), NoRange, NoString, NoTags)}

(* the record the racing calls address, the oldest one; other records stay
   in the store *)
RaceIds == {id \in StoredIds : \A other \in StoredIds : id <= other}

NextRace ==
    \E p \in Procs :
        \/ \E request \in ConcRequests : CreateInsert(p, request, AllUp)
        \/ CreateFind(p)
        \/ \E id \in RaceIds, updates \in RaceUpdates :
              UpdatePrepare(p, id, updates, AllUp)
        \/ UpdateWrite(p)

SpecRace == InitConc /\ [][NextRace]_vars

-----------------------------------------------------------------------------
(* Properties of validateDateRange (SpecDate) *)

today == now \div TicksPerDay

Parseable == arg.startDate.parses /\ arg.endDate.parses

Contains(seq, x) == \E i \in 1 .. Len(seq) : seq[i] = x

Accepted == dv.isValid /\ dv.errors = <<>> /\ dv.adjustedRange = arg

TodayRange == [startDate |-> MkDate(today), endDate |-> MkDate(today + FallbackSpanDays)]

(* C3 as stated: every parseable pair with start <= end, end <= start + 5
   days and start between 365 days before and 5 days after the current day
   is accepted unchanged. *)
C3_AsStated ==
    (/\ called /\ Parseable
     /\ arg.startDate.day <= arg.endDate.day
     /\ arg.endDate.day <= arg.startDate.day + FallbackSpanDays
     /\ arg.startDate.day >= today - CommonYearDays
     /\ arg.startDate.day <= today + ForecastHorizonDays)
        => Accepted

(* C3 amended: every parseable pair with start <= end, end <= start + 5
   days, start at most 364 days before the current day and end at most 5
   days after the current day is accepted with no error and returned
   unchanged. *)
C3_ValidRangeAccepted ==
    (/\ called /\ Parseable
     /\ arg.startDate.day <= arg.endDate.day
     /\ arg.endDate.day <= arg.startDate.day + FallbackSpanDays
     /\ arg.startDate.day >= today - (CommonYearDays - 1)
     /\ arg.endDate.day <= today + ForecastHorizonDays)
        => Accepted

C3_Witness ==
    /\ called /\ Parseable /\ Accepted
    /\ arg.startDate.day = today - (CommonYearDays - 1)
    /\ arg.endDate.day = arg.startDate.day + 1
    /\ now % TicksPerDay # 0

(* C4: a parseable pair with start strictly after end is rejected, the
   ordering error is among the errors, and adjustedRange is the default
   range (current day, current day + 5 days). *)
C4_ReversedRangeRejected ==
    (called /\ Parseable /\ arg.startDate.day > arg.endDate.day)
        => /\ ~dv.isValid
           /\ Contains(dv.errors, ErrOrder)
           /\ dv.adjustedRange = TodayRange

C4_Witness ==
    /\ called /\ Parseable /\ arg.startDate.day > arg.endDate.day
    /\ dv.errors = <<ErrOrder>>
    /\ dv.adjustedRange = TodayRange /\ today > 0

(* C5: for every input, parseable or not, isValid holds exactly when the
   error list is empty, adjustedRange is the input when valid and the
   default range (current day, current day + 5 days) when invalid. *)
C5_ResultShape ==
    called =>
        /\ dv.isValid <=> (Len(dv.errors) = 0)
        /\ dv.isValid => dv.adjustedRange = arg
        /\ ~dv.isValid => dv.adjustedRange = TodayRange

C5_Witness ==
    /\ called /\ ~arg.startDate.parses /\ arg.endDate.parses
    /\ ~dv.isValid /\ dv.adjustedRange = TodayRange /\ dv.adjustedRange # arg

(* how many of the listed conditions hold *)
CountTrue(conds) == Cardinality({k \in DOMAIN conds : conds[k]})

(* C24: validateDateRange collects every violated rule: for parseable dates
   the error list holds exactly one message for each of the four rules that
   is violated (order, past limit, start horizon, end horizon); when a date
   fails to parse it holds the parse errors only. *)
C24_AllViolationsCollected ==
    called =>
        IF Parseable
        THEN LET start == arg.startDate.day * TicksPerDay
                 end == arg.endDate.day * TicksPerDay
                 horizon == now + ForecastHorizonDays * TicksPerDay
                 order == start > end
                 past == start < now - yearLen * TicksPerDay
                 startLate == start > horizon
                 endLate == end > horizon
             IN  /\ Contains(dv.errors, ErrOrder) <=> order
                 /\ Contains(dv.errors, ErrPast) <=> past
                 /\ Contains(dv.errors, ErrStartHorizon) <=> startLate
                 /\ Contains(dv.errors, ErrEndHorizon) <=> endLate
                 /\ Len(dv.errors) = CountTrue(<<order, past, startLate, endLate>>)
        ELSE /\ Contains(dv.errors, ErrStartInvalid) <=> ~arg.startDate.parses
             /\ Contains(dv.errors, ErrEndInvalid) <=> ~arg.endDate.parses
             /\ Len(dv.errors) = CountTrue(<<~arg.startDate.parses, ~arg.endDate.parses>>)

(* a reversed range beyond the horizon: three rules violated at once *)
C24_Witness ==
    /\ called /\ Parseable
    /\ Len(dv.errors) = 3 /\ Contains(dv.errors, ErrOrder)

-----------------------------------------------------------------------------
(* Properties of the store (Spec) *)

(* C1: every stored WeatherQuery has dateRange.startDate <= dateRange.endDate,
   after any sequence of create and update calls, successful or failed. *)
C1_StoredRangeOrdered ==
    \A q \in queries :
        /\ q.dateRange.startDate.parses /\ q.dateRange.endDate.parses
        /\ q.dateRange.startDate.day <= q.dateRange.endDate.day

C1_Witness ==
    /\ \E q \in queries : q.dateRange = RangeB /\ q.updatedAt > q.createdAt
    /\ \E q \in queries : q.dateRange = RangeA

StoredNotes(request) == IF request.userNotes.has THEN request.userNotes.val ELSE ""
StoredTags(request) == IF request.tags.has THEN request.tags.val ELSE <<>>

(* C6: a getWeatherQuery(id) that directly follows the successful
   createWeatherQuery that returned id gives a record whose location,
   dateRange, userNotes and tags are the ones passed to create (notes and tags
   left out are stored empty) and whose weatherData is present. *)
C6_CreateGetRoundTrip ==
    [][(/\ last.op = "create" /\ last.status = "ok"
        /\ last'.op = "get" /\ last'.id = last.res._id)
          => /\ last'.status = "ok"
             /\ last'.res.location = last.req.location
             /\ last'.res.dateRange = last.req.dateRange
             /\ last'.res.userNotes = StoredNotes(last.req)
             /\ last'.res.tags = StoredTags(last.req)
             /\ last'.res.weatherData # NoWeather
             /\ last'.res.weatherData.name = Canonical[last.req.location]]_vars

C6_Witness ==
    /\ last.op = "get" /\ last.status = "ok"
    /\ last.res.createdAt = now - 1 /\ last.res.updatedAt = last.res.createdAt
    /\ last.res.location = "london" /\ last.res.userNotes = "note"
    /\ last.res.tags = <<"trip">> /\ last.res.weatherData.name = "London"

Resolves(location, env) == env.w1 /\ location \in DOMAIN Canonical

(* C7: createWeatherQuery adds exactly one record when the range is valid, the
   location resolves and the current-weather fetch succeeds, with or without
   the forecast (without it the record has no forecastData); in every other
   case it fails and the store is unchanged. *)
C7_CreateAllOrNothing ==
    [][last'.op = "create" =>
        IF /\ validateDateRange(last'.req.dateRange, now, yearLen).isValid
           /\ Resolves(last'.req.location, last'.env)
           /\ last'.env.w2
        THEN /\ last'.status = "ok"
             /\ last'.res \notin queries
             /\ \A q \in queries : q._id # last'.res._id
             /\ queries' = queries \cup {last'.res}
             /\ last'.res.forecastData.present = last'.env.fc
        ELSE /\ last'.status # "ok"
             /\ queries' = queries]_vars

C7_Witness ==
    /\ last.op = "create" /\ last.status = "ok" /\ ~last.env.fc
    /\ last.res \in queries /\ last.res.forecastData = NoForecast
    /\ Cardinality(queries) = 2

NotesOnly(updates) ==
    /\ updates.userNotes.has
    /\ ~updates.location.has /\ ~updates.dateRange.has /\ ~updates.tags.has

(* C8: updateWeatherQuery with only userNotes supplied changes exactly
   userNotes and updatedAt of the targeted record; its other fields and every
   other record are unchanged. *)
C8_NotesOnlyFrame ==
    [][(last'.op = "update" /\ last'.status = "ok" /\ NotesOnly(last'.upd)) =>
        \E q \in queries :
            /\ q._id = last'.id
            /\ queries' = (queries \ {q}) \cup
                 {[q EXCEPT !.userNotes = last'.upd.userNotes.val, !.updatedAt = now]}
            /\ last'.res = [q EXCEPT !.userNotes = last'.upd.userNotes.val,
                                     !.updatedAt = now]]_vars

C8_Witness ==
    /\ last.op = "update" /\ last.status = "ok" /\ NotesOnly(last.upd)
    /\ Cardinality(queries) = 2
    /\ last.res.userNotes = "edited" /\ last.res.updatedAt > last.res.createdAt
    /\ last.res.tags = <<"trip">> /\ last.res.forecastData.present

(* C9: after a successful updateWeatherQuery that supplies a location, both
   stored snapshots are the ones fetched for the new location; none fetched
   for the previous location remains, also when the forecast fetch fails. *)
C9_SnapshotsReplaced ==
    (last.op = "update" /\ last.status = "ok" /\ last.upd.location.has) =>
        /\ last.res.weatherData = [name |-> Canonical[last.upd.location.val],
                                   obs |-> last.res.updatedAt]
        /\ last.res.forecastData =
              IF last.env.fc
              THEN [present |-> TRUE, city |-> Canonical[last.upd.location.val],
                    obs |-> last.res.updatedAt]
              ELSE NoForecast

(* a spelling that differs from a gazetteer name by letter case only, which
   an approximate match over the gazetteer accepts *)
InGazetteer(location) ==
    \E name \in COMMON_LOCATIONS : normalizeLocation(name) = normalizeLocation(location)

(* C18: when the provider's lookup fails and the input approximately matches
   a gazetteer entry, validateLocation returns at least one candidate (so
   the create does not fail with location-not-found); it returns the empty
   list only when the input matches no gazetteer entry. *)
C18_FuzzyFallbackFindsGazetteer ==
    (last.op = "create" /\ ~last.env.w1 /\ last.status # "invalid_date")
        => /\ Len(validateLocation(last.req.location, last.env.w1, now)) = 0
                <=> ~InGazetteer(last.req.location)
           /\ last.status = "location_not_found" <=> ~InGazetteer(last.req.location)

(* C29: updateWeatherQuery is all-or-nothing: whenever it fails (location
   not resolved, current-weather fetch failed, or an invalid date range sent
   together with valid other fields) no field of any record is changed. *)
C29_UpdateAllOrNothing ==
    [][(last'.op = "update" /\ last'.status # "ok")
          => /\ queries' = queries
             /\ last'.status \in {"location_not_found", "fetch_failed", "invalid_date",
                                   "error", "null"}
             /\ last'.res = NoDoc]_vars

(* a stored record, a location that resolves and a reversed range: refused *)
C29_Witness ==
    /\ last.op = "update" /\ last.status = "invalid_date"
    /\ last.upd.location.has /\ last.env = AllUp
    /\ \E q \in queries : q._id = last.id

(* C13: getWeatherQuery(id) returns the stored record when id is in the
   store, returns null without throwing when id is absent or ill-formed, and
   never modifies the store. *)
C13_GetReturnsRecordOrNull ==
    [][last'.op = "get"
          => /\ UNCHANGED storeVars
             /\ IF \E q \in queries : q._id = last'.id
                THEN /\ last'.status = "ok"
                     /\ last'.res \in queries /\ last'.res._id = last'.id
                ELSE /\ last'.status = "null" /\ last'.res = NoDoc]_vars

(* an ill-formed id asked of a store that holds records *)
C13_Witness ==
    /\ last.op = "get" /\ last.id = MalformedId /\ last.status = "null"
    /\ queries # {}

-----------------------------------------------------------------------------
(* Properties of the handlers (SpecHttp) *)

(* C10: when a query that has an AIInsight is updated with a new location
   through PUT and the insight is regenerated, the insight answered for that
   query afterwards (GET by id) is the regenerated one, made from the new
   location's snapshot, and no longer the one made before the update. *)
C10_RegeneratedInsightReturned ==
    [][(/\ last.op = "PUT" /\ last.code = 200 /\ last.upd.location.has
        /\ last.ins # NoInsight /\ ~last.ins.degraded
        /\ last'.op = "GET" /\ last'.id = last.id)
          => /\ last'.ins = last.ins
             /\ last'.ins.basis = last.res.weatherData]_vars

(* an update body that passes validation and whose fetches succeed *)
Applicable(updates, env) ==
    updateWeatherQuery({[NoDoc EXCEPT !._id = 1]}, 1, updates, env, now, yearLen).status = "ok"

(* C14: updateWeatherQuery on an id that is not in the store reports
   not-found, distinct from a validation failure, and neither creates nor
   changes a record; the PUT handler answers 404. *)
C14_UpdateAbsentIsNotFound ==
    [][(/\ last'.op = "PUT"
        /\ ~ \E q \in queries : q._id = last'.id
        /\ Applicable(last'.upd, last'.env))
          => /\ last'.status = "null" /\ last'.code = 404
             /\ UNCHANGED storeVars]_vars

(* C19: when the gateway call fails during insight generation, the failure
   is surfaced to the caller as distinct from a result and the flow goes on
   without an insight: no AIInsight made from a failed gateway call is
   persisted or answered. *)
C19_GatewayFailureNotPersisted ==
    /\ \A i \in insights : ~i.degraded
    /\ last.op \in {"POST", "PUT"} => ~last.ins.degraded

(* C20: in the POST handler, whenever createWeatherQuery succeeds the answer
   is 201 with the created query, whatever becomes of insight generation; a
   failed insight yields aiInsight = null and the query stays persisted. *)
C20_PostSucceedsWithoutInsight ==
    [][LET r == createWeatherQuery(queries, nextId, last'.req, last'.env, now, yearLen)
       IN  (last'.op = "POST" /\ last'.req.location # "" /\ r.status = "ok")
              => /\ last'.code = 201
                 /\ last'.res = r.res
                 /\ queries' = queries \cup {r.res}
                 /\ IF insights' = insights THEN last'.ins = NoInsight
                    ELSE insights' = insights \cup {last'.ins}]_vars

(* a POST answered 201 without an insight although the AI service is configured *)
C20_Witness ==
    /\ last.op = "POST" /\ last.code = 201 /\ apiKey
    /\ last.ins = NoInsight /\ last.res \in queries

(* C27: in every state reachable through the HTTP handlers the insight
   collection holds at most one AIInsight per query id. *)
C27_OneInsightPerQuery ==
    \A i, j \in insights : i.queryId = j.queryId => i = j

(* C11: delete is idempotent: deleteWeatherQuery on a stored id answers true
   (204) and removes the record; on an id that is not stored, because it was
   deleted before or was never created, it answers false (404) without
   throwing and leaves both collections as they were; ids are never reused,
   so every later delete of a deleted id is such a call. *)
C11_DeleteIdempotent ==
    [][(last'.op = "DELETE" /\ last'.status \in {"ok", "null"})
          => /\ \A q \in queries : q._id < nextId
             /\ \A q \in queries' : q._id # last'.id
             /\ IF \E q \in queries : q._id = last'.id
                THEN /\ last'.status = "ok" /\ last'.code = 204
                     /\ queries' = {q \in queries : q._id # last'.id}
                ELSE /\ last'.status = "null" /\ last'.code = 404
                     /\ queries' = queries /\ insights' = insights]_vars

(* a delete of an id that was stored before and has been deleted already *)
C11_Witness ==
    /\ last.op = "DELETE" /\ last.status = "null"
    /\ last.id \in StoredIds /\ last.id < nextId
    /\ queries # {} /\ insights # {}

(* C12: deleteWeatherQuery deletes the query's insights before the query
   record, so a delete that fails between the two steps leaves the query
   stored without its insights, and never leaves an insight whose query has
   been removed. *)
C12_InsightsDeletedFirst ==
    [][(last'.op = "DELETE" /\ last'.status = "interrupted_between")
          => /\ queries' = queries
             /\ insights' = {i \in insights : i.queryId # last'.id}
             /\ \A i \in insights' : \E q \in queries' : q._id = i.queryId]_vars

(* the only query ever created had an insight, and a delete of it failed
   after the insights were removed *)
C12_Witness ==
    /\ last.op = "DELETE" /\ last.status = "interrupted_between"
    /\ nextId = 2 /\ nextInsightId > 1
    /\ \E q \in queries : q._id = last.id
    /\ insights = {}

-----------------------------------------------------------------------------
(* Properties of listing and export (SpecList) *)

HasInsight(q) == \E i \in insights : i.queryId = q._id

(* C15: with the hasAIInsight filter set to true the listing returns only
   queries that have an AIInsight, with false only queries that have none,
   and totalCount counts only those. *)
C15_InsightFilterApplied ==
    (listed.handler = "list" /\ listed.code = 200 /\ listed.filters.hasAIInsight.has)
        => LET wanted == {q \in queries : HasInsight(q) = listed.filters.hasAIInsight.val}
           IN  /\ \A k \in 1 .. Len(listed.result.data) : listed.result.data[k] \in wanted
               /\ listed.result.totalCount = Cardinality(wanted)

(* the records the filters other than hasAIInsight select *)
Selected == {q \in queries : MatchesQuery(q, listed.filters)}

NewerThan(q) == Cardinality({r \in Selected : r.createdAt > q.createdAt})

(* C16: for page >= 1, limit >= 1 and N matching records the listing answers
   totalCount = N, totalPages = ceil(N / limit), and as data the records at
   positions (page-1)*limit+1 .. min(page*limit, N) of the matching records
   taken newest-created first; a page past the end is empty. *)
C16_PageOfNewestFirst ==
    (/\ listed.handler \in {"list", "export"}
     /\ ~listed.filters.hasAIInsight.has
     /\ listed.result.page >= 1 /\ listed.result.limit >= 1)
        => LET page == listed.result.page
               limit == listed.result.limit
               data == listed.result.data
               N == Cardinality(Selected)
               first == (page - 1) * limit + 1
               final == IF page * limit < N THEN page * limit ELSE N
           IN  /\ listed.code = 200
               /\ listed.result.totalCount = N
               /\ listed.result.totalPages * limit >= N
               /\ (listed.result.totalPages - 1) * limit < N
               /\ listed.result.totalPages >= 0
               /\ Len(data) = IF final >= first THEN final - first + 1 ELSE 0
               /\ \A k \in 1 .. Len(data) :
                      data[k] \in Selected /\ NewerThan(data[k]) = first + k - 2

(* the second page of two over three records: the last, partly filled page *)
C16_Witness ==
    /\ listed.handler = "list" /\ listed.filters = NoFilters
    /\ listed.result.page = 2 /\ listed.result.limit = 2
    /\ listed.result.totalCount = 3 /\ Len(listed.result.data) = 1

(* C17: whatever the page and limit parameters are (absent, non-numeric,
   zero, negative, above the cap), the list handler calls listWeatherQueries
   with page >= 1 and 1 <= limit <= 50, and the export handler with page = 1
   and 1 <= limit <= 1000. *)
C17_PageAndLimitBounded ==
    /\ listed.handler = "list"
          => /\ listed.result.page >= 1
             /\ listed.result.limit >= 1 /\ listed.result.limit <= ListCap
    /\ listed.handler = "export"
          => /\ listed.result.page = 1
             /\ listed.result.limit >= 1 /\ listed.result.limit <= ExportCap

-----------------------------------------------------------------------------
(* Properties of parseAIResponse (SpecParse) *)

(* the reply holds a '{' ... '}' stretch that is a JSON object *)
EmbeddedJsonParses ==
    /\ jsonMatch(input[1]).has
    /\ ~JSONparse(jsonMatch(input[1]).val).threw

(* C21: for every reply text parseAIResponse returns a result and does not
   throw; it takes the values of the embedded JSON object when that object
   parses, and the line-based extraction otherwise, whose insight is never
   empty and whose recommendations are a non-empty list of non-empty
   texts. *)
C21_ParseAlwaysReturns ==
    output # <<>>
       => LET r == output[1]
          IN  /\ ~r.threw
              /\ IF EmbeddedJsonParses
                 THEN /\ r.path = "json"
                      /\ r.insight \in {<<"s">>, input[1]}
                      /\ Len(r.insight) > 0
                      /\ r.insight = <<"s">> <=> Includes(jsonMatch(input[1]).val, {MemberSummary, MemberBoth})
                 ELSE /\ r.path = "lines"
                      /\ Len(r.insight) > 0
                      /\ Len(r.recommendations) > 0
                      /\ \A k \in 1 .. Len(r.recommendations) : Len(r.recommendations[k]) > 0

(* a reply with a malformed object and nothing the line scan can use: the
   insight and the recommendation are the defaults *)
C21_Witness ==
    /\ output # <<>>
    /\ jsonMatch(input[1]).has /\ JSONparse(jsonMatch(input[1]).val).threw
    /\ output[1].recommendations = <<DefaultRecommendation>>
    /\ output[1].insight = input[1] \o <<"...">>

-----------------------------------------------------------------------------
(* Properties of isCoordinates (SpecCoord) *)

Stripped == SelectSeq(input[1], LAMBDA c : c \notin Whitespace)

(* optional '-', a digit first, then digits with at most one '.' *)
IsNumberText(text) ==
    LET unsigned == IF Len(text) > 0 /\ text[1] = "-" THEN Tail(text) ELSE text
    IN  /\ Len(unsigned) > 0
        /\ unsigned[1] \in Digit
        /\ \A k \in 1 .. Len(unsigned) : unsigned[k] \in Digit \cup {"."}
        /\ Cardinality(Positions(unsigned, ".")) <= 1

LooksLikeCoordinates ==
    /\ Cardinality(Positions(Stripped, ",")) = 1
    /\ LET c == Least(Positions(Stripped, ","))
       IN  /\ IsNumberText(SubSeq(Stripped, 1, c - 1))
           /\ IsNumberText(SubSeq(Stripped, c + 1, Len(Stripped)))

(* C22: getCurrentWeather and getForecast take the lat/lon path exactly when
   the location, with all white space removed, is a number, a comma and a
   number, each an optional '-', digits, an optional '.' and digits; so
   "40.7128,-74.0060" takes the coordinate path and "10001" and "London"
   the name-based path. *)
C22_CoordinatePathIffPattern ==
    output # <<>>
       => /\ output[1].endpoint \in {"weather", "forecast"}
          /\ output[1].query.path = IF LooksLikeCoordinates THEN "coordinates" ELSE "name"
          /\ input[1] = <<"4", "0", ".", "7", "1", "2", "8", ",", "-", "7", "4", ".", "0", "0", "6", "0">>
                => output[1].query.path = "coordinates"
          /\ input[1] \in {<<"1", "0", "0", "0", "1">>, <<"L", "o", "n", "d", "o", "n">>}
                => output[1].query.path = "name"
          /\ output[1].query.path = "name" => output[1].query.q = input[1]

(* a pair written with a blank after the comma is sent as lat and lon *)
C22_Witness ==
    /\ output # <<>>
    /\ output[1].endpoint = "forecast"
    /\ input[1] = <<"7", ",", " ", "-", "7">>
    /\ output[1].query.path = "coordinates"
    /\ output[1].query.lat = <<"7">> /\ output[1].query.lon = <<"-", "7">>

-----------------------------------------------------------------------------
(* Properties of the XML export (SpecXml) *)

EntityOf(c) ==
    CASE c = "&" -> EntityAmp
      [] c = "<" -> EntityLt
      [] c = ">" -> EntityGt
      [] c = "\"" -> EntityQuot
      [] c = "'" -> EntityApos
      [] OTHER -> <<c>>

RECURSIVE CharByChar(_)
CharByChar(text) ==
    IF Len(text) = 0 THEN <<>> ELSE EntityOf(text[1]) \o CharByChar(Tail(text))

(* the text holds one of the five entities at position k *)
EntityAt(text, k) ==
    \E e \in {EntityAmp, EntityLt, EntityGt, EntityQuot, EntityApos} :
        /\ k + Len(e) - 1 <= Len(text)
        /\ SubSeq(text, k, k + Len(e) - 1) = e

(* the value of the field under study as the document receives it *)
StudiedValue ==
    LET x == input[1]
    IN  IF x.field = "tags" THEN x.text \o <<",", " ">> \o PlainText
        ELSE IF x.field \in ListFields THEN x.text \o <<" ", "|", " ">> \o PlainText
        ELSE x.text

(* C23: every text value written into the XML export has each ampersand,
   angle bracket, double quote and apostrophe replaced by its entity, the
   ampersand first so that no entity is escaped again: the element of a
   field holds the value of the field character by character with the five
   characters as entities, and no raw angle bracket, quote or stray
   ampersand from record text. *)
C23_XmlTextEscaped ==
    (output # <<>> /\ output[1].by = "generateSimpleXML")
       => /\ \A k \in 1 .. Len(output[1].elements) :
                LET text == output[1].elements[k].text
                IN  /\ \A j \in 1 .. Len(text) : text[j] \notin {"<", ">", "\"", "'"}
                    /\ \A j \in 1 .. Len(text) : text[j] = "&" => EntityAt(text, j)
          /\ \E k \in 1 .. Len(output[1].elements) :
                /\ output[1].elements[k].element = input[1].kind \o "." \o input[1].field
                /\ output[1].elements[k].text = CharByChar(StudiedValue)

(* notes holding an angle bracket, an ampersand and a quote were exported *)
C23_Witness ==
    /\ output # <<>> /\ output[1].by = "generateSimpleXML"
    /\ input[1].kind = "query" /\ input[1].field = "userNotes"
    /\ input[1].text = <<"<", "&", "\"">>
    /\ \E k \in 1 .. Len(output[1].elements) :
          output[1].elements[k].text = EntityLt \o EntityAmp \o EntityQuot

-----------------------------------------------------------------------------
(* Properties of generateWeatherTips (SpecTips) *)

RainForecast ==
    /\ input[1].forecastData.has
    /\ \E k \in 1 .. Len(input[1].forecastData.val) : input[1].forecastData.val[k] > 50

(* the tips the current snapshot yields by itself *)
SnapshotTips == generateWeatherTips(input[1].weatherData, Undefined)

(* C25 as stated: whenever a forecast entry has precipitation probability
   above 50 the weather tips include the rain-planning tip, whatever the
   current snapshot. *)
C25_AsStated ==
    (output # <<>> /\ RainForecast) => Contains(output[1].weatherTips, TipRainSoon)

(* C25: the weather tips are at most four; they include the rain-planning
   tip exactly when a forecast entry has precipitation probability above 50
   and the current snapshot yields fewer than four tips of its own. *)
C25_RainTipWhenRoom ==
    output # <<>>
       => /\ Len(output[1].weatherTips) <= 4
          /\ Contains(output[1].weatherTips, TipRainSoon)
                <=> (RainForecast /\ Len(SnapshotTips) < 4)

(* rain is forecast, the snapshot gives three tips and the rain tip is the
   fourth *)
C25_Witness ==
    /\ output # <<>>
    /\ RainForecast
    /\ Len(SnapshotTips) = 3
    /\ output[1].weatherTips[4] = TipRainSoon

-----------------------------------------------------------------------------
(* Properties of the forecast grouping (SpecForecast) *)

(* the positions at which a day label appears for the first time *)
FirstPositions == {k \in 1 .. Len(input[1]) : \A j \in 1 .. k - 1 : input[1][j].date # input[1][k].date}

(* the n-th of them *)
NthFirst(n) == CHOOSE k \in FirstPositions : Cardinality({j \in FirstPositions : j <= k}) = n

TempsOfDay(label) ==
    UNION {{input[1][k].temp_min, input[1][k].temp_max} : k \in {j \in 1 .. Len(input[1]) : input[1][j].date = label}}

(* C26: getForecast returns at most 5 daily entries, one per distinct day
   label in order of first appearance; the min and max of an entry are the
   rounded minimum and maximum over all temp_min and temp_max values of the
   records of that day, so min <= max, and its description, icon, humidity,
   wind speed and precipitation probability are those of the first record
   of the day. *)
C26_DailyGrouping ==
    output # <<>>
       => LET days == output[1]
          IN  /\ Len(days) <= 5
              /\ Len(days) = MathMin(5, Cardinality(FirstPositions))
              /\ \A n \in 1 .. Len(days) :
                    LET first == input[1][NthFirst(n)]
                        temps == TempsOfDay(first.date)
                    IN  /\ days[n].date = first.date
                        /\ days[n].temperature.min = MathRound(Least(temps), 10)
                        /\ days[n].temperature.max = MathRound(Greatest(temps), 10)
                        /\ days[n].temperature.min <= days[n].temperature.max
                        /\ days[n].description = first.description
                        /\ days[n].icon = first.icon
                        /\ days[n].humidity = first.humidity
                        /\ days[n].windSpeed = MathRound(first.speed * 36, 100)
                        /\ days[n].pop = MathRound(first.pop, 10)

(* seven days of two records each came back as five days, each with the
   range of both of its records *)
C26_Witness ==
    /\ output # <<>>
    /\ Len(input[1]) = 14
    /\ Len(output[1]) = 5
    /\ output[1][5].date = "Fri, Jan 5"
    /\ output[1][1].temperature = [min |-> 1, max |-> 4]

-----------------------------------------------------------------------------
(* Properties of validateDateRange under clock changes (SpecZone) *)

(* C30: the fallback range validateDateRange produces for an invalid input
   is accepted by validateDateRange at the same instant: validating the
   adjustedRange of any result reports isValid and gives the same range
   back. *)
C30_FallbackRangeRevalidates ==
    output # <<>> => /\ output[1].isValid
                     /\ output[1].adjustedRange = dv.adjustedRange

-----------------------------------------------------------------------------
(* Properties of updates in flight at once (SpecRace) *)

(* the write of request p as the $set of exactly the fields p supplied *)
SetsOnlySupplied(p, q, r) ==
    LET u == loc[p].upd
    IN  /\ r._id = q._id /\ r.createdAt = q.createdAt
        /\ r.userNotes = IF u.userNotes.has THEN u.userNotes.val ELSE q.userNotes
        /\ r.tags = IF u.tags.has THEN u.tags.val ELSE q.tags
        /\ r.dateRange = IF u.dateRange.has THEN u.dateRange.val ELSE q.dateRange
        /\ r.location = IF u.location.has THEN u.location.val ELSE q.location
        /\ ~u.location.has
              => /\ r.locationNormalized = q.locationNormalized
                 /\ r.coordinates = q.coordinates
                 /\ r.weatherData = q.weatherData
                 /\ r.forecastData = q.forecastData

(* C28: updateWeatherQuery calls on one id that supply disjoint fields and
   run concurrently both take effect: each write sets the fields its call
   supplied and leaves every other field as the store holds it at that
   moment, so no write puts back a stale value of another call's field. *)
C28_DisjointUpdatesBothApply ==
    [][\A p \in Procs :
          (pc[p] = "updateWrite" /\ pc'[p] = "idle")
             => /\ \A q \in queries :
                      IF q._id = loc[p].id
                      THEN \E r \in queries' : SetsOnlySupplied(p, q, r)
                      ELSE q \in queries'
                /\ Cardinality(queries') = Cardinality(queries)]_vars

(* the notes of one call and the tags of another are both in the record
   while a third update of it, of the location, is still in flight *)
C28_Witness ==
    \E p \in Procs, q \in queries :
        /\ pc[p] = "updateWrite" /\ loc[p].id = q._id /\ loc[p].upd.location.has
        /\ q.userNotes = "edited" /\ q.tags = <<"trip">>

-----------------------------------------------------------------------------
(* Properties of requests in flight at once (SpecConc) *)

(* C2: no orphaned insights: in every state reachable by interleaving the
   store operations of create, generateAIInsight, update and delete, every
   AIInsight's queryId is the id of a WeatherQuery present in the store. *)
C2_NoOrphanedInsights ==
    \A i \in insights : \E q \in queries : q._id = i.queryId

====
